---- MODULE Spec2Model ----
(***************************************************************************)
(* Conversation memory and context-window compaction of the sidecar        *)
(* (sidecar/src/server.ts): the conversation store, the context renderer,  *)
(* the background summarizer, the streaming responder and the two request  *)
(* handlers (POST /api/chat/stream and POST /api/chat).                     *)
(*                                                                         *)
(* The sidecar runs on one cooperative event loop.  Every action below is  *)
(* one run-to-completion segment of the code: from the arrival of a        *)
(* request, or the resumption of an await, up to the next await.           *)
(*                                                                         *)
(* Text is a sequence of atoms (strings); concatenation is \o.  Whitespace *)
(* atoms are the members of Whitespace, so that String.trim() is modelled  *)
(* by what it removes.                                                     *)
(***************************************************************************)
EXTENDS Integers, Sequences, FiniteSets, TLC

VARIABLES
    conversations,  \* Map<string, ConversationState> (server.ts:111)
    now,            \* the wall clock read by Date.now() / new Date()
    pc,             \* per request: "idle" (not arrived), "running" (awaiting the model), "done"
    req,            \* per request: the handler's locals (variant, chatId, message, effectiveKey)
    prompt,         \* per request: conversationContext and finalMessage, the handler's locals
                    \*   while it awaits the model call
    out,            \* per request: the events written to the response stream
    res,            \* per request: the HTTP status and body kind of the response
    run,            \* per request: the locals of StreamingMCPAgent.run
    summ,           \* per request: the maybeSummarizeAsync call the request fired
    appended,       \* history: per conversation, every turn ever pushed by addTurn
    folded,         \* history: per conversation, the turns compressed into a stored summary
    unit,           \* the last call made of an operation of the store or the renderer on
                    \*   its own (no request involved): its arguments and what it returned
    aborted         \* the requests whose caller aborted the fetch while the response was
                    \*   streaming (the UI's cancel)

vars ==
    <<conversations, now, pc, req, prompt, out, res, run, summ, appended, folded, unit, aborted>>

-----------------------------------------------------------------------------
(* Bounds of the model *)

MaxRequests == 2
MaxEvents == 1
MaxClock == 1

Requests == 1..MaxRequests

\* Bounds of the specification of one streaming turn (ResponderSpec).
MaxRuns == 1
MaxRunEvents == 4

\* Bound of the specification of the store and the renderer on their own (UnitSpec).
MaxUnitTurns == 3

-----------------------------------------------------------------------------
(* Values *)

None == "<undefined>"
NoTime == 0

Falsy(s) == s \in {None, ""}

Min(a, b) == IF a < b THEN a ELSE b
Max(a, b) == IF a > b THEN a ELSE b

Whitespace == {" ", "\n"}

RECURSIVE TrimStart(_)
TrimStart(t) ==
    IF t # <<>> /\ Head(t) \in Whitespace THEN TrimStart(Tail(t)) ELSE t

RECURSIVE TrimEnd(_)
TrimEnd(t) ==
    IF t # <<>> /\ t[Len(t)] \in Whitespace THEN TrimEnd(SubSeq(t, 1, Len(t) - 1)) ELSE t

Trim(t) == TrimEnd(TrimStart(t))

RECURSIVE Join(_, _)
Join(texts, sep) ==
    IF texts = <<>> THEN <<>>
    ELSE IF Len(texts) = 1 THEN texts[1]
    ELSE texts[1] \o sep \o Join(Tail(texts), sep)

Slice(s, from) == SubSeq(s, from + 1, Len(s))

SliceTo(s, to) == SubSeq(s, 1, to)

-----------------------------------------------------------------------------
(* ConversationStore (server.ts:96-131) *)

MaxRecent == 6

ChatIdValues == {"c1"}

DefaultChatId == "default"

EmptyState == [turns |-> <<>>, summary |-> <<>>, summarizing |-> FALSE, lastSummaryAt |-> NoTime]

\* A resolution that prefers the body's chatId to the header.
resolveChatIdBodyFirst(header, chatId, conversationId) ==
    IF ~Falsy(chatId) THEN chatId
    ELSE IF ~Falsy(header) THEN header
    ELSE IF ~Falsy(conversationId) THEN conversationId
    ELSE DefaultChatId

\* The first truthy of the x-chat-id header, body.chatId, body.conversationId, else 'default'.
resolveChatId(header, chatId, conversationId) ==
    IF ~Falsy(header) THEN header
    ELSE IF ~Falsy(chatId) THEN chatId
    ELSE IF ~Falsy(conversationId) THEN conversationId
    ELSE DefaultChatId

\* A lookup that registers a new empty state on every call.
getConversationStateResets(convs, chatId) ==
    [c \in DOMAIN convs \cup {chatId} |-> IF c = chatId THEN EmptyState ELSE convs[c]]

\* The map after getConversationState(chatId): the state is registered if it was absent.
getConversationState(convs, chatId) ==
    IF chatId \in DOMAIN convs THEN convs ELSE convs @@ (chatId :> EmptyState)

\* A turn; uid is a history field (the turn's position among all turns ever pushed to its
\* conversation) that no operation of the program reads.
Turn(role, content, timestamp, uid) ==
    [role |-> role, content |-> content, timestamp |-> timestamp, uid |-> uid]

\* An addTurn that puts the turn first.
addTurnFirst(convs, chatId, turn) ==
    LET created == getConversationState(convs, chatId)
    IN  [created EXCEPT ![chatId].turns = <<turn>> \o @]

addTurn(convs, chatId, turn) ==
    LET created == getConversationState(convs, chatId)
    IN  [created EXCEPT ![chatId].turns = Append(@, turn)]

-----------------------------------------------------------------------------
(* ContextAssembler (server.ts:133-153) *)

formatTurn(turn) ==
    <<(IF turn.role = "user" THEN "User" ELSE "Assistant"), ": ">> \o turn.content

\* A window over the oldest turns instead of the latest.
RecentTurnsOldest(turns, maxRecent) == SliceTo(turns, Max(0, Min(maxRecent, Len(turns))))

RecentTurns(turns, maxRecent) == Slice(turns, Max(0, Len(turns) - maxRecent))

FormatAll(turns) == Join([i \in 1..Len(turns) |-> formatTurn(turns[i])], <<"\n">>)

\* A renderer that writes the Recent Messages block also when it lists no turn.
buildConversationContextAlwaysRecent(state, maxRecent) ==
    LET turns == state.turns
        recent == RecentTurns(turns, maxRecent)
        olderCount == Max(0, Len(turns) - Len(recent))
        summaryBlock ==
            <<"Conversation Summary (compressed from ", ToString(olderCount),
              " earlier message", (IF olderCount = 1 THEN "" ELSE "s"), "):\n">>
            \o state.summary
        recentBlock ==
            <<"Recent Messages (up to last ", ToString(maxRecent), "):\n">> \o FormatAll(recent)
        blocks ==
            (IF state.summary # <<>> THEN <<summaryBlock>> ELSE <<>>) \o <<recentBlock>>
    IN  IF turns = <<>> /\ state.summary = <<>> THEN <<>> ELSE Join(blocks, <<"\n\n">>)

\* A renderer that writes the Recent Messages block before the Conversation Summary block.
buildConversationContextRecentFirst(state, maxRecent) ==
    LET turns == state.turns
        recent == RecentTurns(turns, maxRecent)
        olderCount == Max(0, Len(turns) - Len(recent))
        summaryBlock ==
            <<"Conversation Summary (compressed from ", ToString(olderCount),
              " earlier message", (IF olderCount = 1 THEN "" ELSE "s"), "):\n">>
            \o state.summary
        recentBlock ==
            <<"Recent Messages (up to last ", ToString(maxRecent), "):\n">> \o FormatAll(recent)
        blocks ==
            (IF recent # <<>> THEN <<recentBlock>> ELSE <<>>)
            \o (IF state.summary # <<>> THEN <<summaryBlock>> ELSE <<>>)
    IN  IF turns = <<>> /\ state.summary = <<>> THEN <<>> ELSE Join(blocks, <<"\n\n">>)

buildConversationContext(state, maxRecent) ==
    LET turns == state.turns
        recent == RecentTurns(turns, maxRecent)
        olderCount == Max(0, Len(turns) - Len(recent))
        summaryBlock ==
            <<"Conversation Summary (compressed from ", ToString(olderCount),
              " earlier message", (IF olderCount = 1 THEN "" ELSE "s"), "):\n">>
            \o state.summary
        recentBlock ==
            <<"Recent Messages (up to last ", ToString(maxRecent), "):\n">> \o FormatAll(recent)
        blocks ==
            (IF state.summary # <<>> THEN <<summaryBlock>> ELSE <<>>)
            \o (IF recent # <<>> THEN <<recentBlock>> ELSE <<>>)
    IN  IF turns = <<>> /\ state.summary = <<>> THEN <<>> ELSE Join(blocks, <<"\n\n">>)

-----------------------------------------------------------------------------
(* BackgroundSummarizer (server.ts:155-209) *)

OlderTurns(turns) == SliceTo(turns, Max(0, Len(turns) - MaxRecent))

\* The guard without its test of the flag.
ShouldSummarizeUnguarded(state) == OlderTurns(state.turns) # <<>>

\* A guard that does not look at the number of turns.
ShouldSummarizeAnyLength(state) == ~state.summarizing

\* server.ts:161: the guard, evaluated with no await between it and the set of the flag.
ShouldSummarize(state) == ~(OlderTurns(state.turns) = <<>> \/ state.summarizing)

\* server.ts:172-186: the instruction handed to the auxiliary model.
SummaryPrompt(existingSummary, olderTurns) ==
    <<"Existing summary:\n">> \o (IF existingSummary # <<>> THEN existingSummary ELSE <<"None">>)
    \o <<"\n", "Earlier messages to compress:\n">> \o FormatAll(olderTurns)
    \o <<"\n", "Return only the updated summary.">>

\* The shapes of the auxiliary model's reply that server.ts:189-196 tells apart.
AiMsg(shape, parts) == [shape |-> shape, parts |-> parts]

ExtractSummaryText(aiMsg) ==
    IF aiMsg.shape = "string" THEN aiMsg.parts[1]
    ELSE IF aiMsg.shape = "array" THEN Join(aiMsg.parts, <<>>)
    ELSE IF aiMsg.shape = "text" THEN aiMsg.parts[1]
    ELSE <<>>

\* The state update storing the returned text as it came.
SummaryUpdateUntrimmed(state, summaryText, t) ==
    [state EXCEPT
        !.summary = IF summaryText # <<>> THEN summaryText ELSE @,
        !.turns = RecentTurns(@, MaxRecent),
        !.lastSummaryAt = t]

\* A state update that stores whatever text came back, also none.
SummaryUpdateStoresEmpty(state, summaryText, t) ==
    [state EXCEPT
        !.summary = Trim(summaryText),
        !.turns = RecentTurns(@, MaxRecent),
        !.lastSummaryAt = t]

\* A state update that keeps the oldest turns instead of the latest.
SummaryUpdateKeepsOldest(state, summaryText, t) ==
    [state EXCEPT
        !.summary = IF Trim(summaryText) # <<>> THEN Trim(summaryText) ELSE @,
        !.turns = RecentTurnsOldest(@, MaxRecent),
        !.lastSummaryAt = t]

\* server.ts:199-202: the state update after the auxiliary call returned.
SummaryUpdate(state, summaryText, t) ==
    [state EXCEPT
        !.summary = IF Trim(summaryText) # <<>> THEN Trim(summaryText) ELSE @,
        !.turns = RecentTurns(@, MaxRecent),
        !.lastSummaryAt = t]

\* A finally block that leaves the flag set.
SummaryFinallyKeepsFlag(state) == state

\* server.ts:205-208: the finally block.
SummaryFinally(state) == [state EXCEPT !.summarizing = FALSE]

-----------------------------------------------------------------------------
(* Inputs of the model *)

ChatIds == ChatIdValues \cup {DefaultChatId}

MessageInputs == {None, "", "hi"}

KeyInputs == {None, "sk"}

ChatIdInputs == {None} \cup ChatIdValues

FileSummaryInputs == {<<>>, <<"f1">>}

ToolNames == {"calendar", "arkangel_read_file"}

TokenInputs == {"", "a", " "}

OAuthPhrases == {"OAuth credentials not found", "Error loading OAuth keys", "google-calendar-mcp"}

ErrorInputs ==
    {<<"socket hang up">>, <<"Error: ", "OAuth credentials not found">>,
     <<"oauth credentials not found">>}

ResultInputs == {<<"a", " ">>}

AiMsgInputs ==
    { AiMsg("string", <<t>>) : t \in {<<>>, <<" ">>, <<" ", "S", "\n">>} }
    \cup {AiMsg("array", <<<<"S">>, <<"T">>>>), AiMsg("text", <<<<"S", "T">>>>),
          AiMsg("other", <<>>)}

\* A test for the message being one of the phrases, not containing one.
IncludesWhole(text, phrases) == text \in {<<p>> : p \in phrases}

Includes(text, phrases) == \E i \in 1..Len(text) : text[i] \in phrases

\* The clock readings an await can resume at: time does not run backwards.
Later == now..Min(now + 1, MaxClock)

-----------------------------------------------------------------------------
(* Prompt assembly (server.ts:211-249, 510-525, 583-596) *)

DefaultSystemPrompt == "You are a helpful AI assistant with access to calendar, email, and other productivity tools."

enhanceSystemPromptWithDateTime(systemPrompt) ==
    <<"CURRENT DATE & TIME CONTEXT", "CONVERSATION & CONTEXT POLICY",
      (IF Falsy(systemPrompt) THEN DefaultSystemPrompt ELSE systemPrompt)>>

\* An assembly that puts the new user message before the preamble.
FinalMessageMessageFirst(variant, systemPrompt, conversationContext, fileSummaries, message) ==
    LET base == enhanceSystemPromptWithDateTime(systemPrompt)
        withContext ==
            IF conversationContext # <<>>
            THEN base \o <<"\n\nConversation Context:\n\n">> \o conversationContext
            ELSE base
        withFiles ==
            IF fileSummaries # <<>>
            THEN withContext \o <<"\n\nUploaded Files (summaries only):\n- ">>
                 \o Join([i \in 1..Len(fileSummaries) |-> <<fileSummaries[i]>>], <<"\n- ">>)
                 \o (IF variant = "buffered"
                     THEN <<"\n\nYou have tools: arkangel_list_files, arkangel_read_file.">>
                     ELSE <<>>)
            ELSE withContext
    IN  <<message>> \o <<"\n\n">> \o withFiles

FinalMessage(variant, systemPrompt, conversationContext, fileSummaries, message) ==
    LET base == enhanceSystemPromptWithDateTime(systemPrompt)
        withContext ==
            IF conversationContext # <<>>
            THEN base \o <<"\n\nConversation Context:\n\n">> \o conversationContext
            ELSE base
        withFiles ==
            IF fileSummaries # <<>>
            THEN withContext \o <<"\n\nUploaded Files (summaries only):\n- ">>
                 \o Join([i \in 1..Len(fileSummaries) |-> <<fileSummaries[i]>>], <<"\n- ">>)
                 \o (IF variant = "buffered"
                     THEN <<"\n\nYou have tools: arkangel_list_files, arkangel_read_file.">>
                     ELSE <<>>)
            ELSE withContext
    IN  withFiles \o <<"\n\n">> \o <<message>>

\* server.ts:469, 568 with createAgent's own fallback (server.ts:254); envKey is
\* process.env.OPENAI_API_KEY as the request reads it.
EffectiveKey(apiKey, headerKey, envKey) ==
    IF ~Falsy(apiKey) THEN apiKey ELSE IF ~Falsy(headerKey) THEN headerKey ELSE envKey

-----------------------------------------------------------------------------
(* The part both handlers share (server.ts:501-526, 579-597): render the context,    *)
(* record the user turn, fire maybeSummarizeAsync up to its await, build the prompt. *)

\* A summarizer with one guard for all conversations: it starts no call while a call
\* for any conversation is outstanding.
maybeSummarizeAsyncOneGuard(convs, chatId) ==
    LET created == getConversationState(convs, chatId)
        state == created[chatId]
        olderTurns == OlderTurns(state.turns)
    IN  IF ShouldSummarize(state) /\ \A c \in DOMAIN created : ~created[c].summarizing
        THEN [conversations |-> [created EXCEPT ![chatId].summarizing = TRUE],
              call |-> [status |-> "pending", chatId |-> chatId, olderTurns |-> olderTurns,
                        prompt |-> SummaryPrompt(state.summary, olderTurns),
                        before |-> state, result |-> <<>>]]
        ELSE [conversations |-> created,
              call |-> [status |-> "skipped", chatId |-> chatId, olderTurns |-> <<>>,
                        prompt |-> <<>>, before |-> state, result |-> <<>>]]

\* maybeSummarizeAsync up to `await llm.invoke` (server.ts:155-188).
maybeSummarizeAsync(convs, chatId) ==
    LET created == getConversationState(convs, chatId)
        state == created[chatId]
        olderTurns == OlderTurns(state.turns)
    IN  IF ShouldSummarize(state)
        THEN [conversations |-> [created EXCEPT ![chatId].summarizing = TRUE],
              call |-> [status |-> "pending", chatId |-> chatId, olderTurns |-> olderTurns,
                        prompt |-> SummaryPrompt(state.summary, olderTurns),
                        before |-> state, result |-> <<>>]]
        ELSE [conversations |-> created,
              call |-> [status |-> "skipped", chatId |-> chatId, olderTurns |-> <<>>,
                        prompt |-> <<>>, before |-> state, result |-> <<>>]]

\* The handler rendering the context after it recorded the user turn.
HandleTurnRenderAfterAppend(convs, chatId, variant, message, fileSummaries, t, uid) ==
    LET added == addTurn(convs, chatId, Turn("user", <<message>>, t, uid))
        state == added[chatId]
        conversationContext == buildConversationContext(state, 6)
        fired == maybeSummarizeAsync(added, chatId)
    IN  [conversations |-> fired.conversations,
         call |-> fired.call,
         prompt |-> [context |-> conversationContext,
                     rendered |-> RecentTurns(state.turns, 6),
                     finalMessage |-> FinalMessage(variant, None, conversationContext,
                                                   fileSummaries, message),
                     fileSummaries |-> fileSummaries]]

\* A handler that fires the summarizer before it records the user turn.
HandleTurnSummarizeBeforeAppend(convs, chatId, variant, message, fileSummaries, t, uid) ==
    LET state == convs[chatId]
        conversationContext == buildConversationContext(state, 6)
        fired == maybeSummarizeAsync(convs, chatId)
        added == addTurn(fired.conversations, chatId, Turn("user", <<message>>, t, uid))
    IN  [conversations |-> added,
         call |-> fired.call,
         prompt |-> [context |-> conversationContext,
                     rendered |-> RecentTurns(state.turns, 6),
                     finalMessage |-> FinalMessage(variant, None, conversationContext,
                                                   fileSummaries, message),
                     fileSummaries |-> fileSummaries]]

HandleTurn(convs, chatId, variant, message, fileSummaries, t, uid) ==
    LET state == convs[chatId]
        conversationContext == buildConversationContext(state, 6)
        added == addTurn(convs, chatId, Turn("user", <<message>>, t, uid))
        fired == maybeSummarizeAsync(added, chatId)
    IN  [conversations |-> fired.conversations,
         call |-> fired.call,
         prompt |-> [context |-> conversationContext,
                     rendered |-> RecentTurns(state.turns, 6),
                     finalMessage |-> FinalMessage(variant, None, conversationContext,
                                                   fileSummaries, message),
                     fileSummaries |-> fileSummaries]]

-----------------------------------------------------------------------------
(* Initial state *)

\* No operation was called on its own.
NoUnit == [op |-> "none"]

\* uid is a history field: the uid of the user turn the request recorded.
NoReq == [variant |-> "none", chatId |-> None, message |-> None, key |-> None, uid |-> 0]

\* fileSummaries (what the request body supplied) is a history field.
NoPrompt == [context |-> <<>>, rendered |-> <<>>, finalMessage |-> <<>>,
             fileSummaries |-> <<>>]

\* events (the model events the run consumed so far) and toolEnds (what on_tool_end
\* computed and logged for each tool end) are history fields, as is the runId of a start.
\* output (the text the agent of a buffered request returned) is a history field too.
NoRun == [finalText |-> <<>>, responseStarted |-> FALSE,
          toolStartTimes |-> [n \in ToolNames |-> <<>>], consumed |-> 0,
          events |-> <<>>, toolEnds |-> <<>>, output |-> <<>>]

\* before (the state maybeSummarizeAsync found) and result (the text the auxiliary model
\* returned) are history fields.
NoCall == [status |-> "none", chatId |-> None, olderTurns |-> <<>>, prompt |-> <<>>,
           before |-> EmptyState, result |-> <<>>]

\* A conversation "c1" that already holds three completed exchanges: with MaxRecent or
\* fewer turns no summarization was ever started for it.
SeedTurns ==
    [i \in 1..MaxRecent |->
        Turn((IF i % 2 = 1 THEN "user" ELSE "assistant"),
             (IF i % 2 = 1 THEN <<"hi">> ELSE <<"a">>), 1, i)]

SeedState == [EmptyState EXCEPT !.turns = SeedTurns]

Init ==
    /\ \/ /\ conversations = [c \in {} |-> EmptyState]
          /\ appended = [c \in ChatIds |-> <<>>]
       \/ /\ conversations = [c \in {"c1"} |-> SeedState]
          /\ appended = [c \in ChatIds |-> IF c = "c1" THEN SeedTurns ELSE <<>>]
    /\ folded = [c \in ChatIds |-> {}]
    /\ now = 1
    /\ pc = [r \in Requests |-> "idle"]
    /\ req = [r \in Requests |-> NoReq]
    /\ prompt = [r \in Requests |-> NoPrompt]
    /\ out = [r \in Requests |-> <<>>]
    /\ res = [r \in Requests |-> 0]
    /\ run = [r \in Requests |-> NoRun]
    /\ summ = [r \in Requests |-> NoCall]
    /\ unit = NoUnit
    /\ aborted = {}

-----------------------------------------------------------------------------
(* Request arrival (server.ts:459-526 and 559-597, up to the await of the model call) *)

\* Requests are numbered in their order of arrival.
Arrives(r) == pc[r] = "idle" /\ (IF r = 1 THEN TRUE ELSE pc[r - 1] # "idle")

Event(type, tool, data) == [type |-> type, tool |-> tool, data |-> data]

HandlerError == Event("error", None, <<"Sorry, I encountered an error while processing your request.">>)

\* A handler that fetches the conversation state before it validates the message.
RejectAfterLookup(r, variant) ==
    /\ Arrives(r)
    /\ \E message \in MessageInputs, header \in ChatIdInputs :
        /\ Falsy(message)
        /\ req' = [req EXCEPT ![r] = [NoReq EXCEPT !.variant = variant]]
        /\ conversations' =
               getConversationState(conversations, resolveChatId(header, None, None))
    /\ res' = [res EXCEPT ![r] = 400]
    /\ pc' = [pc EXCEPT ![r] = "done"]
    /\ UNCHANGED <<now, prompt, out, run, summ, appended, folded, unit, aborted>>

\* server.ts:463-465 and 563-565: `if (!message) return res.status(400)`.
Reject(r, variant) ==
    /\ Arrives(r)
    /\ \E message \in MessageInputs :
        /\ Falsy(message)
        /\ req' = [req EXCEPT ![r] = [NoReq EXCEPT !.variant = variant]]
    /\ res' = [res EXCEPT ![r] = 400]
    /\ pc' = [pc EXCEPT ![r] = "done"]
    /\ UNCHANGED <<conversations, now, prompt, out, run, summ, appended, folded, unit, aborted>>

\* A handler that records the user turn before it creates the agent.
NoKeyAfterAppend(r, variant) ==
    /\ Arrives(r)
    /\ \E message \in MessageInputs, apiKey \in KeyInputs, headerKey \in KeyInputs,
          envKey \in KeyInputs,
          header \in ChatIdInputs, chatId \in ChatIdInputs, conversationId \in ChatIdInputs :
        LET id == resolveChatId(header, chatId, conversationId)
            key == EffectiveKey(apiKey, headerKey, envKey)
            uid == Len(appended[id]) + 1
            turn == Turn("user", <<message>>, now, uid)
        IN  /\ ~Falsy(message)
            /\ Falsy(key)
            /\ req' = [req EXCEPT ![r] = [variant |-> variant, chatId |-> id,
                                          message |-> message, key |-> key, uid |-> uid]]
            /\ conversations' = addTurn(getConversationState(conversations, id), id, turn)
            /\ appended' = [appended EXCEPT ![id] = Append(@, turn)]
    /\ out' = [out EXCEPT ![r] = IF variant = "stream"
                                 THEN <<Event("start", None, <<>>), HandlerError,
                                        Event("end", None, <<>>)>>
                                 ELSE <<>>]
    /\ res' = [res EXCEPT ![r] = IF variant = "stream" THEN 200 ELSE 500]
    /\ pc' = [pc EXCEPT ![r] = "done"]
    /\ UNCHANGED <<now, prompt, run, summ, folded, unit, aborted>>

\* createAgent throws for want of a key (server.ts:254-257), after the state was fetched.
NoKey(r, variant) ==
    /\ Arrives(r)
    /\ \E message \in MessageInputs, apiKey \in KeyInputs, headerKey \in KeyInputs,
          envKey \in KeyInputs,
          header \in ChatIdInputs, chatId \in ChatIdInputs, conversationId \in ChatIdInputs :
        LET id == resolveChatId(header, chatId, conversationId)
            key == EffectiveKey(apiKey, headerKey, envKey)
        IN  /\ ~Falsy(message)
            /\ Falsy(key)
            /\ req' = [req EXCEPT ![r] = [variant |-> variant, chatId |-> id,
                                          message |-> message, key |-> key, uid |-> 0]]
            /\ conversations' = getConversationState(conversations, id)
    /\ out' = [out EXCEPT ![r] = IF variant = "stream"
                                 THEN <<Event("start", None, <<>>), HandlerError,
                                        Event("end", None, <<>>)>>
                                 ELSE <<>>]
    /\ res' = [res EXCEPT ![r] = IF variant = "stream" THEN 200 ELSE 500]
    /\ pc' = [pc EXCEPT ![r] = "done"]
    /\ UNCHANGED <<now, prompt, run, summ, appended, folded, unit, aborted>>

Accept(r, variant) ==
    /\ Arrives(r)
    /\ \E message \in MessageInputs, apiKey \in KeyInputs, headerKey \in KeyInputs,
          envKey \in KeyInputs,
          header \in ChatIdInputs, chatId \in ChatIdInputs, conversationId \in ChatIdInputs,
          fileSummaries \in FileSummaryInputs, t \in Later :
        LET id == resolveChatId(header, chatId, conversationId)
            key == EffectiveKey(apiKey, headerKey, envKey)
            created == getConversationState(conversations, id)
            uid == Len(appended[id]) + 1
            h == HandleTurn(created, id, variant, message, fileSummaries, t, uid)
        IN  /\ ~Falsy(message)
            /\ ~Falsy(key)
            /\ now' = t
            /\ req' = [req EXCEPT ![r] = [variant |-> variant, chatId |-> id,
                                          message |-> message, key |-> key, uid |-> uid]]
            /\ conversations' = h.conversations
            /\ prompt' = [prompt EXCEPT ![r] = h.prompt]
            /\ summ' = [summ EXCEPT ![r] = h.call]
            /\ appended' = [appended EXCEPT ![id] = Append(@, Turn("user", <<message>>, t, uid))]
    /\ out' = [out EXCEPT ![r] = IF variant = "stream" THEN <<Event("start", None, <<>>)>>
                                 ELSE <<>>]
    /\ res' = [res EXCEPT ![r] = IF variant = "stream" THEN 200 ELSE 0]
    /\ pc' = [pc EXCEPT ![r] = "running"]
    /\ UNCHANGED <<run, folded, unit, aborted>>

StreamReject(r) == Reject(r, "stream")
StreamNoKey(r) == NoKey(r, "stream")
StreamAccept(r) == Accept(r, "stream")

ChatReject(r) == Reject(r, "buffered")
ChatNoKey(r) == NoKey(r, "buffered")
ChatAccept(r) == Accept(r, "buffered")

-----------------------------------------------------------------------------
(* StreamingResponder: StreamingMCPAgent.run (server.ts:321-455), one action per event *)
(* of the model's event sequence, and the handler's continuation after it.            *)

\* A handler that awaits maybeSummarizeAsync before it invokes the model.
ModelCallRunningAfterSummary(r) == pc[r] = "running" /\ summ[r].status # "pending"

\* The handler is suspended on the model call alone (server.ts:526, 597); the call of
\* maybeSummarizeAsync before it is not awaited (server.ts:523, 594).
ModelCallRunning(r) == pc[r] = "running"

RECURSIVE Sum(_, _)
Sum(f, n) == IF n = 0 THEN 0 ELSE f[n] + Sum(f, n - 1)

\* The number of model events delivered to all runs so far.
Consumed == Sum([r \in Requests |-> run[r].consumed], MaxRequests)

\* The run of request r is inside `for await (const event of eventStream)`.
Consuming(r) ==
    /\ ModelCallRunning(r)
    /\ req[r].variant = "stream"

\* An event of the model's event stream (server.ts:329-330): its type, the tool's name,
\* the id of the tool invocation it belongs to (0: none known) and the chunk's text.
ModelEvent(event, name, runId, text) ==
    [event |-> event, name |-> name, runId |-> runId, text |-> text]

\* The tool invocations of a name that a run saw start, and those still without an end.
StartedRuns(events, name) ==
    {events[i].runId : i \in {j \in 1..Len(events) :
                                events[j].event = "on_tool_start" /\ events[j].name = name}}
EndedRuns(events, name) ==
    {events[i].runId : i \in {j \in 1..Len(events) :
                                events[j].event = "on_tool_end" /\ events[j].name = name}}
OpenRuns(events, name) == StartedRuns(events, name) \ EndedRuns(events, name)

\* The id the provider gives the next tool invocation.
NextRunId(events) ==
    Cardinality({j \in 1..Len(events) : events[j].event = "on_tool_start"}) + 1

Emit(r, events) == out' = [out EXCEPT ![r] = @ \o events]

\* case 'on_chat_model_start' (server.ts:331-338): logged only.
OnChatModelStart(r) ==
    /\ Consuming(r)
    /\ run' = [run EXCEPT ![r].consumed = @ + 1,
                          ![r].events = Append(@, ModelEvent("on_chat_model_start", None, 0, ""))]
    /\ UNCHANGED <<conversations, now, pc, req, prompt, out, res, summ, appended, folded, unit, aborted>>

\* case 'on_tool_start' (server.ts:339-360).
OnToolStart(r) ==
    /\ Consuming(r)
    /\ \E toolName \in ToolNames, t \in Later :
        LET runId == NextRunId(run[r].events)
        IN  /\ now' = t
            /\ run' = [run EXCEPT ![r].consumed = @ + 1,
                                  ![r].events =
                                      Append(@, ModelEvent("on_tool_start", toolName, runId, "")),
                                  ![r].toolStartTimes[toolName] =
                                      Append(@, [at |-> t, runId |-> runId])]
            /\ Emit(r, <<Event("tool_start", toolName, <<"input">>)>>)
    /\ UNCHANGED <<conversations, pc, req, prompt, res, summ, appended, folded, unit, aborted>>

\* A responder whose start times are kept in one map for all runs: a tool end that finds
\* no start of its own run takes the latest start another run recorded.
OnToolEndSharedStarts(r) ==
    /\ Consuming(r)
    /\ \E toolName \in ToolNames, t \in Later :
        \E runId \in OpenRuns(run[r].events, toolName) \cup {0} :
            LET holders == {q \in Requests : run[q].toolStartTimes[toolName] # <<>>}
                holder == IF r \in holders \/ holders = {} THEN r
                          ELSE CHOOSE q \in holders : TRUE
                starts == run[holder].toolStartTimes[toolName]
                matched == starts # <<>>
                startedAt == starts[Len(starts)]
                logged == [run EXCEPT ![r].consumed = @ + 1,
                                      ![r].events =
                                          Append(@, ModelEvent("on_tool_end", toolName, runId, "")),
                                      ![r].toolEnds =
                                          Append(@, [tool |-> toolName, runId |-> runId,
                                                     matched |-> matched,
                                                     startedRun |-> IF matched THEN startedAt.runId
                                                                    ELSE 0,
                                                     durationMs |-> IF matched THEN t - startedAt.at
                                                                    ELSE 0])]
            IN  /\ now' = t
                /\ run' = [logged EXCEPT ![holder].toolStartTimes[toolName] =
                                             IF matched THEN SubSeq(starts, 1, Len(starts) - 1)
                                             ELSE @]
                /\ Emit(r, <<Event("tool_end", toolName, <<"output">>)>>)
    /\ UNCHANGED <<conversations, pc, req, prompt, res, summ, appended, folded, unit, aborted>>

\* A responder that pairs a tool end that has no start of its own name with the latest
\* start recorded for another tool.
OnToolEndAnyTool(r) ==
    /\ Consuming(r)
    /\ \E toolName \in ToolNames, t \in Later :
        \E runId \in OpenRuns(run[r].events, toolName) \cup {0} :
            LET others == {n \in ToolNames : run[r].toolStartTimes[n] # <<>>}
                key == IF run[r].toolStartTimes[toolName] # <<>> \/ others = {} THEN toolName
                       ELSE CHOOSE n \in others : TRUE
                starts == run[r].toolStartTimes[key]
                matched == starts # <<>>
                startedAt == starts[Len(starts)]
            IN  /\ now' = t
                /\ run' = [run EXCEPT ![r].consumed = @ + 1,
                                      ![r].events =
                                          Append(@, ModelEvent("on_tool_end", toolName, runId, "")),
                                      ![r].toolStartTimes[key] =
                                          IF matched THEN SubSeq(starts, 1, Len(starts) - 1)
                                          ELSE @,
                                      ![r].toolEnds =
                                          Append(@, [tool |-> toolName, runId |-> runId,
                                                     matched |-> matched,
                                                     startedRun |-> IF matched THEN startedAt.runId
                                                                    ELSE 0,
                                                     durationMs |-> IF matched THEN t - startedAt.at
                                                                    ELSE 0])]
                /\ Emit(r, <<Event("tool_end", toolName, <<"output">>)>>)
    /\ UNCHANGED <<conversations, pc, req, prompt, res, summ, appended, folded, unit, aborted>>

\* A responder that reports the end of a tool only when it had recorded its start.
OnToolEndMatchedOnly(r) ==
    /\ Consuming(r)
    /\ \E toolName \in ToolNames, t \in Later :
        \E runId \in OpenRuns(run[r].events, toolName) \cup {0} :
            LET starts == run[r].toolStartTimes[toolName]
                matched == starts # <<>>
                startedAt == starts[Len(starts)]
            IN  /\ now' = t
                /\ run' = [run EXCEPT ![r].consumed = @ + 1,
                                      ![r].events =
                                          Append(@, ModelEvent("on_tool_end", toolName, runId, "")),
                                      ![r].toolStartTimes[toolName] =
                                          IF matched THEN SubSeq(starts, 1, Len(starts) - 1)
                                          ELSE @,
                                      ![r].toolEnds =
                                          Append(@, [tool |-> toolName, runId |-> runId,
                                                     matched |-> matched,
                                                     startedRun |-> IF matched THEN startedAt.runId
                                                                    ELSE 0,
                                                     durationMs |-> IF matched THEN t - startedAt.at
                                                                    ELSE 0])]
                /\ Emit(r, IF matched THEN <<Event("tool_end", toolName, <<"output">>)>>
                           ELSE <<>>)
    /\ UNCHANGED <<conversations, pc, req, prompt, res, summ, appended, folded, unit, aborted>>

\* case 'on_tool_end' (server.ts:361-385): starts.pop() takes the latest recorded start;
\* durationMs is undefined (matched FALSE) when there is none. The end belongs to any of
\* the invocations still open, or to one whose start the run never saw (runId 0).
OnToolEnd(r) ==
    /\ Consuming(r)
    /\ \E toolName \in ToolNames, t \in Later :
        \E runId \in OpenRuns(run[r].events, toolName) \cup {0} :
            LET starts == run[r].toolStartTimes[toolName]
                matched == starts # <<>>
                startedAt == starts[Len(starts)]
            IN  /\ now' = t
                /\ run' = [run EXCEPT ![r].consumed = @ + 1,
                                      ![r].events =
                                          Append(@, ModelEvent("on_tool_end", toolName, runId, "")),
                                      ![r].toolStartTimes[toolName] =
                                          IF matched THEN SubSeq(starts, 1, Len(starts) - 1)
                                          ELSE @,
                                      ![r].toolEnds =
                                          Append(@, [tool |-> toolName, runId |-> runId,
                                                     matched |-> matched,
                                                     startedRun |-> IF matched THEN startedAt.runId
                                                                    ELSE 0,
                                                     durationMs |-> IF matched THEN t - startedAt.at
                                                                    ELSE 0])]
                /\ Emit(r, <<Event("tool_end", toolName, <<"output">>)>>)
    /\ UNCHANGED <<conversations, pc, req, prompt, res, summ, appended, folded, unit, aborted>>

\* A responder that announces the response before every token.
OnTokenAnnouncesEach(r) ==
    /\ Consuming(r)
    /\ \E token \in TokenInputs :
        IF token # ""
        THEN /\ run' = [run EXCEPT ![r].consumed = @ + 1,
                                   ![r].events =
                                       Append(@, ModelEvent("on_chat_model_stream", None, 0, token)),
                                   ![r].responseStarted = TRUE,
                                   ![r].finalText = Append(@, token)]
             /\ Emit(r, <<Event("response_start", None, <<"Response:">>),
                          Event("token", None, <<token>>)>>)
        ELSE /\ run' = [run EXCEPT ![r].consumed = @ + 1,
                                   ![r].events =
                                       Append(@, ModelEvent("on_chat_model_stream", None, 0, token))]
             /\ out' = out
    /\ UNCHANGED <<conversations, now, pc, req, prompt, res, summ, appended, folded, unit, aborted>>

\* case 'on_chat_model_stream' / 'on_llm_stream' (server.ts:386-420).
OnToken(r) ==
    /\ Consuming(r)
    /\ \E token \in TokenInputs :
        IF token # ""
        THEN /\ run' = [run EXCEPT ![r].consumed = @ + 1,
                                   ![r].events =
                                       Append(@, ModelEvent("on_chat_model_stream", None, 0, token)),
                                   ![r].responseStarted = TRUE,
                                   ![r].finalText = Append(@, token)]
             /\ Emit(r, (IF ~run[r].responseStarted
                         THEN <<Event("response_start", None, <<"Response:">>)>> ELSE <<>>)
                        \o <<Event("token", None, <<token>>)>>)
        ELSE /\ run' = [run EXCEPT ![r].consumed = @ + 1,
                                   ![r].events =
                                       Append(@, ModelEvent("on_chat_model_stream", None, 0, token))]
             /\ out' = out
    /\ UNCHANGED <<conversations, now, pc, req, prompt, res, summ, appended, folded, unit, aborted>>

\* The assistant turn the handler persists (server.ts:529, 600).
Persist(r, text, t) ==
    LET id == req[r].chatId
        turn == Turn("assistant", text, t, Len(appended[id]) + 1)
    IN  /\ conversations' = addTurn(conversations, id, turn)
        /\ appended' = [appended EXCEPT ![id] = Append(@, turn)]

\* A handler that writes end before complete.
StreamEndCompleteAfterEnd(r) ==
    /\ ModelCallRunning(r)
    /\ req[r].variant = "stream"
    /\ \E t \in Later :
        /\ now' = t
        /\ Persist(r, Trim(run[r].finalText), t)
    /\ Emit(r, <<Event("end", None, <<>>), Event("complete", None, <<>>)>>)
    /\ prompt' = [prompt EXCEPT ![r] = NoPrompt]
    /\ pc' = [pc EXCEPT ![r] = "done"]
    /\ UNCHANGED <<req, res, run, summ, folded, unit, aborted>>

\* A handler that persists the accumulated text as it is.
StreamEndPersistsUntrimmed(r) ==
    /\ ModelCallRunning(r)
    /\ req[r].variant = "stream"
    /\ \E t \in Later :
        /\ now' = t
        /\ Persist(r, run[r].finalText, t)
    /\ Emit(r, <<Event("complete", None, <<>>), Event("end", None, <<>>)>>)
    /\ prompt' = [prompt EXCEPT ![r] = NoPrompt]
    /\ pc' = [pc EXCEPT ![r] = "done"]
    /\ UNCHANGED <<req, res, run, summ, folded, unit, aborted>>

\* End of the event sequence: run returns finalText.trim() (server.ts:424-428); the handler
\* persists it and writes complete and end (server.ts:529-547).
StreamEnd(r) ==
    /\ ModelCallRunning(r)
    /\ req[r].variant = "stream"
    /\ \E t \in Later :
        /\ now' = t
        /\ Persist(r, Trim(run[r].finalText), t)
    /\ Emit(r, <<Event("complete", None, <<>>), Event("end", None, <<>>)>>)
    /\ prompt' = [prompt EXCEPT ![r] = NoPrompt]
    /\ pc' = [pc EXCEPT ![r] = "done"]
    /\ UNCHANGED <<req, res, run, summ, folded, unit, aborted>>

\* A run whose catch block does not rethrow: the handler goes on as after a return.
StreamRaiseSwallowed(r) ==
    /\ ModelCallRunning(r)
    /\ req[r].variant = "stream"
    /\ \E message \in ErrorInputs :
        /\ Emit(r, (IF Includes(message, OAuthPhrases)
                    THEN <<Event("oauth_required", "google_calendar", <<>>)>> ELSE <<>>)
                   \o <<Event("error", None, message), Event("complete", None, <<>>),
                        Event("end", None, <<>>)>>)
    /\ Persist(r, Trim(run[r].finalText), now)
    /\ prompt' = [prompt EXCEPT ![r] = NoPrompt]
    /\ pc' = [pc EXCEPT ![r] = "done"]
    /\ UNCHANGED <<now, req, res, run, summ, folded, unit, aborted>>

\* A handler that persists the text accumulated so far when the model call raises.
StreamRaisePersistsPartial(r) ==
    /\ ModelCallRunning(r)
    /\ req[r].variant = "stream"
    /\ \E message \in ErrorInputs :
        /\ Emit(r, (IF Includes(message, OAuthPhrases)
                    THEN <<Event("oauth_required", "google_calendar", <<>>)>> ELSE <<>>)
                   \o <<Event("error", None, message), HandlerError, Event("end", None, <<>>)>>)
    /\ Persist(r, Trim(run[r].finalText), now)
    /\ prompt' = [prompt EXCEPT ![r] = NoPrompt]
    /\ pc' = [pc EXCEPT ![r] = "done"]
    /\ UNCHANGED <<now, req, res, run, summ, folded, unit, aborted>>

\* The model call raises: run's catch (server.ts:429-454) emits oauth_required for the
\* known phrases, then error, and rethrows; the handler's catch (server.ts:536-547)
\* writes its own error, then end.
StreamRaise(r) ==
    /\ ModelCallRunning(r)
    /\ req[r].variant = "stream"
    /\ \E message \in ErrorInputs :
        /\ Emit(r, (IF Includes(message, OAuthPhrases)
                    THEN <<Event("oauth_required", "google_calendar", <<>>)>> ELSE <<>>)
                   \o <<Event("error", None, message), HandlerError, Event("end", None, <<>>)>>)
    /\ prompt' = [prompt EXCEPT ![r] = NoPrompt]
    /\ pc' = [pc EXCEPT ![r] = "done"]
    /\ UNCHANGED <<conversations, now, req, res, run, summ, appended, folded, unit, aborted>>

\* agent.run returns (server.ts:597-606).
ChatReturn(r) ==
    /\ ModelCallRunning(r)
    /\ req[r].variant = "buffered"
    /\ \E result \in ResultInputs, t \in Later :
        /\ now' = t
        /\ Persist(r, result, t)
        /\ run' = [run EXCEPT ![r].output = result]
    /\ res' = [res EXCEPT ![r] = 200]
    /\ prompt' = [prompt EXCEPT ![r] = NoPrompt]
    /\ pc' = [pc EXCEPT ![r] = "done"]
    /\ UNCHANGED <<req, out, summ, folded, unit, aborted>>

\* agent.run raises (server.ts:607-615).
ChatRaise(r) ==
    /\ ModelCallRunning(r)
    /\ req[r].variant = "buffered"
    /\ res' = [res EXCEPT ![r] = 500]
    /\ prompt' = [prompt EXCEPT ![r] = NoPrompt]
    /\ pc' = [pc EXCEPT ![r] = "done"]
    /\ UNCHANGED <<conversations, now, req, out, run, summ, appended, folded, unit, aborted>>

-----------------------------------------------------------------------------
(* BackgroundSummarizer: the continuation of maybeSummarizeAsync after its await *)

\* A catch block that truncates the turns as the success path does.
SummaryCatchTruncates(state) == [state EXCEPT !.turns = RecentTurns(@, MaxRecent)]

\* server.ts:203-205: the catch block logs and changes nothing.
SummaryCatch(state) == state

Uids(turns) == {turns[i].uid : i \in 1..Len(turns)}

\* A continuation that leaves through the finally block only when the text is non-empty.
SummarizeReturnFlagStuckOnEmpty(r) ==
    /\ summ[r].status = "pending"
    /\ \E aiMsg \in AiMsgInputs, t \in Later :
        LET id == summ[r].chatId
            summaryText == ExtractSummaryText(aiMsg)
        IN  /\ now' = t
            /\ conversations' =
                   [conversations EXCEPT ![id] =
                       IF Trim(summaryText) # <<>>
                       THEN SummaryFinally(SummaryUpdate(@, summaryText, t))
                       ELSE SummaryUpdate(@, summaryText, t)]
            /\ folded' = [folded EXCEPT ![id] = IF Trim(summaryText) # <<>>
                                                THEN @ \cup Uids(summ[r].olderTurns) ELSE @]
            /\ summ' = [summ EXCEPT ![r].status = "returned", ![r].result = summaryText]
    /\ UNCHANGED <<pc, req, prompt, out, res, run, appended, unit, aborted>>

\* llm.invoke returned (server.ts:188-202, then the finally block).
SummarizeReturn(r) ==
    /\ summ[r].status = "pending"
    /\ \E aiMsg \in AiMsgInputs, t \in Later :
        LET id == summ[r].chatId
            summaryText == ExtractSummaryText(aiMsg)
        IN  /\ now' = t
            /\ conversations' =
                   [conversations EXCEPT ![id] = SummaryFinally(SummaryUpdate(@, summaryText, t))]
            /\ folded' = [folded EXCEPT ![id] = IF Trim(summaryText) # <<>>
                                                THEN @ \cup Uids(summ[r].olderTurns) ELSE @]
            /\ summ' = [summ EXCEPT ![r].status = "returned", ![r].result = summaryText]
    /\ UNCHANGED <<pc, req, prompt, out, res, run, appended, unit, aborted>>

\* A summarizer that reports its failure on the stream of the request that fired it.
SummarizeRaiseSurfaced(r) ==
    /\ summ[r].status = "pending"
    /\ conversations' =
           [conversations EXCEPT ![summ[r].chatId] = SummaryFinally(SummaryCatch(@))]
    /\ summ' = [summ EXCEPT ![r].status = "raised"]
    /\ out' = [out EXCEPT ![r] = @ \o <<Event("error", None, <<"summary failed">>)>>]
    /\ UNCHANGED <<now, pc, req, prompt, res, run, appended, folded, unit, aborted>>

\* A failure path whose finally block does not clear the flag.
SummarizeRaiseKeepsFlag(r) ==
    /\ summ[r].status = "pending"
    /\ conversations' = [conversations EXCEPT ![summ[r].chatId] = SummaryCatch(@)]
    /\ summ' = [summ EXCEPT ![r].status = "raised"]
    /\ UNCHANGED <<now, pc, req, prompt, out, res, run, appended, folded, unit, aborted>>

\* A failure path that unregisters the conversation.
SummarizeRaiseDropsState(r) ==
    /\ summ[r].status = "pending"
    /\ conversations' =
           [c \in DOMAIN conversations \ {summ[r].chatId} |-> conversations[c]]
    /\ summ' = [summ EXCEPT ![r].status = "raised"]
    /\ UNCHANGED <<now, pc, req, prompt, out, res, run, appended, folded, unit, aborted>>

\* llm.invoke raised (server.ts:203-208).
SummarizeRaise(r) ==
    /\ summ[r].status = "pending"
    /\ conversations' =
           [conversations EXCEPT ![summ[r].chatId] = SummaryFinally(SummaryCatch(@))]
    /\ summ' = [summ EXCEPT ![r].status = "raised"]
    /\ UNCHANGED <<now, pc, req, prompt, out, res, run, appended, folded, unit, aborted>>

-----------------------------------------------------------------------------
(* Specification *)

Foreground(r) ==
    \/ OnChatModelStart(r) \/ OnToolStart(r) \/ OnToolEnd(r) \/ OnToken(r)
    \/ StreamEnd(r) \/ StreamRaise(r) \/ ChatReturn(r) \/ ChatRaise(r)

\* The model provider delivers at most MaxEvents events in all.
Next ==
    \E r \in Requests :
        \/ StreamReject(r) \/ StreamNoKey(r) \/ StreamAccept(r)
        \/ ChatReject(r) \/ ChatNoKey(r) \/ ChatAccept(r)
        \/ Consumed < MaxEvents /\ OnChatModelStart(r)
        \/ Consumed < MaxEvents /\ OnToolStart(r)
        \/ Consumed < MaxEvents /\ OnToolEnd(r)
        \/ Consumed < MaxEvents /\ OnToken(r)
        \/ StreamEnd(r) \/ StreamRaise(r)
        \/ ChatReturn(r) \/ ChatRaise(r)
        \/ SummarizeReturn(r) \/ SummarizeRaise(r)

Spec == Init /\ [][Next]_vars

\* The model call of every running request goes on and ends; nothing is assumed of the
\* auxiliary model, which may never answer.
FairSpec == Spec /\ \A r \in Requests : WF_vars(Foreground(r))

\* Every call of the auxiliary model ends: llm.invoke returns or raises (server.ts:188).
\* Nothing is assumed of the main model call.
SummarizerFairSpec ==
    Spec /\ \A r \in Requests : WF_vars(SummarizeReturn(r) \/ SummarizeRaise(r))

\* The caller aborts the fetch of a streaming request in flight (the UI's cancel:
\* abortControllerRef.current.abort()). The handler registers no listener for the close of
\* the connection and hands the model call no signal (server.ts:459-556, 321-329):
\* nothing of the sidecar's state changes.
ClientAbort(r) ==
    /\ Consuming(r)
    /\ r \notin aborted
    /\ aborted' = aborted \cup {r}
    /\ UNCHANGED <<conversations, now, pc, req, prompt, out, res, run, summ, appended, folded,
                   unit>>

\* One streaming turn in detail: MaxRuns streaming requests arrive and pass validation,
\* the model provider delivers at most MaxRunEvents events in all before the event
\* sequence ends or raises, and the caller may abort the request meanwhile.
ResponderNext ==
    \E r \in Requests :
        \/ r <= MaxRuns /\ StreamAccept(r)
        \/ ClientAbort(r)
        \/ Consumed < MaxRunEvents /\ OnChatModelStart(r)
        \/ Consumed < MaxRunEvents /\ OnToolStart(r)
        \/ Consumed < MaxRunEvents /\ OnToolEnd(r)
        \/ Consumed < MaxRunEvents /\ OnToken(r)
        \/ StreamEnd(r) \/ StreamRaise(r)

ResponderSpec == Init /\ [][ResponderNext]_vars

-----------------------------------------------------------------------------
(* The store and the renderer on their own: getConversationState, addTurn and          *)
(* buildConversationContext called directly, with any maxRecent, on a store that holds *)
(* no conversation or one conversation, new with or without a summary or holding       *)
(* MaxRecent turns.                                                                    *)

RoleInputs == {"user", "assistant"}

ContentInputs == {<<"Hello">>, <<"Hi there">>}

SummaryInputs == {<<>>, <<"S">>}

MaxRecentInputs == (0 - 1)..MaxRecent

\* The lengths of the conversations addTurn is called on: short ones, and one that
\* holds exactly the retained window, which the call gives an older turn.
UnitTurnCounts == 0..(MaxUnitTurns - 1) \cup {MaxRecent}

\* What a request can carry as x-chat-id header, body.chatId and body.conversationId:
\* nothing, an empty value, or an id of its own.
HeaderInputs == {None, "", "h1"}
BodyChatIdInputs == {None, "", "b1"}
BodyConversationIdInputs == {None, "", "v1"}

UnitInit ==
    /\ conversations \in
           {[c \in {} |-> EmptyState], [c \in {"c1"} |-> SeedState]}
           \cup {[c \in {"c1"} |-> [EmptyState EXCEPT !.summary = s]] : s \in SummaryInputs}
    /\ appended = [c \in ChatIds |-> IF c \in DOMAIN conversations
                                     THEN conversations[c].turns ELSE <<>>]
    /\ folded = [c \in ChatIds |-> {}]
    /\ now = 1
    /\ pc = [r \in Requests |-> "idle"]
    /\ req = [r \in Requests |-> NoReq]
    /\ prompt = [r \in Requests |-> NoPrompt]
    /\ out = [r \in Requests |-> <<>>]
    /\ res = [r \in Requests |-> 0]
    /\ run = [r \in Requests |-> NoRun]
    /\ summ = [r \in Requests |-> NoCall]
    /\ unit = NoUnit
    /\ aborted = {}

\* getConversationState(chatId) (server.ts:119-126); found tells whether
\* conversations.get returned a state, returned is the state the call returns.
UnitGet ==
    \E chatId \in ChatIds :
        /\ conversations' = getConversationState(conversations, chatId)
        /\ unit' = [op |-> "getConversationState", chatId |-> chatId,
                    found |-> chatId \in DOMAIN conversations,
                    returned |-> conversations'[chatId]]
        /\ UNCHANGED <<now, pc, req, prompt, out, res, run, summ, appended, folded, aborted>>

\* addTurn(chatId, role, content) (server.ts:128-131).
UnitAddTurn ==
    \E chatId \in ChatIds, role \in RoleInputs, content \in ContentInputs :
        LET turn == Turn(role, content, now, Len(appended[chatId]) + 1)
        IN  /\ Len(appended[chatId]) \in UnitTurnCounts
            /\ chatId = DefaultChatId => appended[chatId] = <<>>
            /\ conversations' = addTurn(conversations, chatId, turn)
            /\ appended' = [appended EXCEPT ![chatId] = Append(@, turn)]
            /\ unit' = [op |-> "addTurn", chatId |-> chatId, role |-> role,
                        content |-> content]
            /\ UNCHANGED <<now, pc, req, prompt, out, res, run, summ, folded, aborted>>

\* buildConversationContext(state, maxRecent) (server.ts:138-153) on a stored state.
UnitRender ==
    \E chatId \in DOMAIN conversations, maxRecent \in MaxRecentInputs :
        /\ unit' = [op |-> "buildConversationContext", state |-> conversations[chatId],
                    maxRecent |-> maxRecent,
                    returned |-> buildConversationContext(conversations[chatId], maxRecent)]
        /\ UNCHANGED <<conversations, now, pc, req, prompt, out, res, run, summ, appended,
                       folded, aborted>>

\* resolveChatId(req) (server.ts:113-117) on a request with the given header and body.
UnitResolve ==
    \E header \in HeaderInputs, chatId \in BodyChatIdInputs,
       conversationId \in BodyConversationIdInputs :
        /\ unit' = [op |-> "resolveChatId", header |-> header, chatId |-> chatId,
                    conversationId |-> conversationId,
                    returned |-> resolveChatId(header, chatId, conversationId)]
        /\ UNCHANGED <<conversations, now, pc, req, prompt, out, res, run, summ, appended,
                       folded, aborted>>

UnitNext == UnitGet \/ UnitAddTurn \/ UnitRender \/ UnitResolve

UnitSpec == UnitInit /\ [][UnitNext]_vars

-----------------------------------------------------------------------------
(* Streaming runs side by side: every request is a streaming request that passes       *)
(* validation, each gets its own StreamingMCPAgent (server.ts:505), and the model       *)
(* provider delivers at most MaxToolEvents tool events in all to the runs.              *)

MaxToolEvents == 3

ConcurrentNext ==
    \E r \in Requests :
        \/ StreamAccept(r)
        \/ Consumed < MaxToolEvents /\ OnToolStart(r)
        \/ Consumed < MaxToolEvents /\ OnToolEnd(r)
        \/ StreamEnd(r)

ConcurrentSpec == Init /\ [][ConcurrentNext]_vars

-----------------------------------------------------------------------------
(* The two handler variants side by side: request 1 is a streaming request for         *)
(* conversation "c1", request 2 a buffered request for conversation 'default'; both     *)
(* conversations are new or both hold the same MaxRecent turns. The model provider      *)
(* delivers at most MaxVariantTokens chunks to the streaming run.                       *)

MaxVariantTokens == 2

VariantInit ==
    /\ \/ /\ conversations = [c \in {} |-> EmptyState]
          /\ appended = [c \in ChatIds |-> <<>>]
       \/ /\ conversations = [c \in ChatIds |-> SeedState]
          /\ appended = [c \in ChatIds |-> SeedTurns]
    /\ folded = [c \in ChatIds |-> {}]
    /\ now = 1
    /\ pc = [r \in Requests |-> "idle"]
    /\ req = [r \in Requests |-> NoReq]
    /\ prompt = [r \in Requests |-> NoPrompt]
    /\ out = [r \in Requests |-> <<>>]
    /\ res = [r \in Requests |-> 0]
    /\ run = [r \in Requests |-> NoRun]
    /\ summ = [r \in Requests |-> NoCall]
    /\ unit = NoUnit
    /\ aborted = {}

VariantNext ==
    \/ StreamAccept(1) /\ req'[1].chatId = "c1"
    \/ ChatAccept(2) /\ req'[2].chatId = DefaultChatId
    \/ Consumed < MaxVariantTokens /\ OnToken(1)
    \/ StreamEnd(1) \/ StreamRaise(1)
    \/ ChatReturn(2) \/ ChatRaise(2)
    \/ \E r \in {1, 2} : SummarizeReturn(r) \/ SummarizeRaise(r)

VariantSpec == VariantInit /\ [][VariantNext]_vars

-----------------------------------------------------------------------------
(* Properties *)

\* The summarization calls outstanding for conversation c.
Pending(c) == {r \in Requests : summ[r].status = "pending" /\ summ[r].chatId = c}

IsPrefix(a, b) == Len(a) <= Len(b) /\ SubSeq(b, 1, Len(a)) = a

\* The steps of a request and of its summarization call.
Accepted(r) == pc[r] = "idle" /\ pc'[r] = "running"
Rejected(r) == pc[r] = "idle" /\ res'[r] = 400
SummaryReturned(r) == summ[r].status = "pending" /\ summ'[r].status = "returned"
SummaryRaised(r) == summ[r].status = "pending" /\ summ'[r].status = "raised"

LastOf(s) == s[Len(s)]

\* C1: single-flight summarization. At most one auxiliary-model call is outstanding per
\* conversation; a request whose maybeSummarizeAsync runs while a call for its
\* conversation is outstanding starts no call, and its handler changes the state by the
\* appended user turn alone: summary, summarizing and lastSummaryAt stay as they were.
C1_SingleFlight ==
    /\ [](\A c \in ChatIds : Cardinality(Pending(c)) <= 1)
    /\ [][\A r \in Requests :
            (Accepted(r) /\ Pending(req'[r].chatId) # {}) =>
                LET id == req'[r].chatId
                IN  /\ summ'[r].status = "skipped"
                    /\ \A q \in Requests \ {r} : summ'[q] = summ[q]
                    /\ conversations'[id] =
                           [conversations[id] EXCEPT !.turns = Append(@, LastOf(appended'[id]))]
         ]_vars

\* C1 witness: a second call found older turns to compress and a call in flight, and returned.
C1_Witness ==
    \E r \in Requests, q \in Requests :
        /\ r # q
        /\ summ[q].status = "pending"
        /\ summ[r].status = "skipped"
        /\ summ[r].chatId = summ[q].chatId
        /\ summ[r].before.summarizing
        /\ OlderTurns(summ[r].before.turns) # <<>>

\* C2: compaction never drops information. Every turn ever appended to a conversation is
\* still in `turns` or was among the olderTurns handed to an auxiliary call whose
\* non-empty result was stored in `summary`.
C2_NoTurnDropped ==
    \A c \in DOMAIN conversations :
        \A i \in 1..Len(appended[c]) :
            appended[c][i].uid \in Uids(conversations[c].turns) \cup folded[c]

\* C3: failed compaction is a no-op. When the auxiliary call raises, the attempt leaves
\* turns, summary and lastSummaryAt as they are: no turn the attempt found is removed or
\* altered, summary and lastSummaryAt are those the attempt found, and summarizing is false.
C3_FailedCompactionNoOp ==
    [][\A r \in Requests :
         SummaryRaised(r) =>
            LET id == summ[r].chatId
                b == summ[r].before
            IN  /\ conversations'[id].turns = conversations[id].turns
                /\ IsPrefix(b.turns, conversations'[id].turns)
                /\ conversations'[id].summary = b.summary
                /\ conversations'[id].lastSummaryAt = b.lastSummaryAt
                /\ conversations'[id].summarizing = FALSE
      ]_vars

\* C3 witness: an attempt has failed on a conversation that still holds older turns.
C3_Witness ==
    \E r \in Requests :
        /\ summ[r].status = "raised"
        /\ Len(conversations[summ[r].chatId].turns) > MaxRecent
        /\ ~conversations[summ[r].chatId].summarizing

\* C4: right after any successful compaction, whatever the auxiliary model returned,
\* len(turns) is maxRecent (or less if fewer existed) and summary is non-empty.
C4_CompactedStateHasSummary ==
    [][\A r \in Requests :
         SummaryReturned(r) =>
            LET id == summ[r].chatId
            IN  /\ Len(conversations'[id].turns) = Min(MaxRecent, Len(conversations[id].turns))
                /\ conversations'[id].summary # <<>>
      ]_vars

\* The first n - maxRecent turns, and the last maxRecent turns, of a sequence of n turns.
FirstOlder(turns) == [i \in 1..(Len(turns) - MaxRecent) |-> turns[i]]
LastRecent(turns) == [i \in 1..MaxRecent |-> turns[Len(turns) - MaxRecent + i]]

\* The trigger half of C5: with n > maxRecent turns and no summarization in flight,
\* maybeSummarizeAsync hands the auxiliary model the first n - maxRecent turns, in order.
TriggerPassesOlderTurns ==
    \A r \in Requests :
        LET b == summ[r].before
        IN  (summ[r].status # "none" /\ Len(b.turns) > MaxRecent /\ ~b.summarizing) =>
                /\ summ[r].status # "skipped"
                /\ summ[r].olderTurns = FirstOlder(b.turns)
                /\ summ[r].prompt = SummaryPrompt(b.summary, FirstOlder(b.turns))

\* C5 as stated: if the call returns non-empty text S and no turn was appended meanwhile,
\* turns is the last maxRecent turns and summary equals S.
C5_SummaryEqualsReturnedText ==
    /\ [](TriggerPassesOlderTurns)
    /\ [][\A r \in Requests :
            LET id == summ[r].chatId
                b == summ[r].before
            IN  (SummaryReturned(r) /\ summ'[r].result # <<>>
                 /\ conversations[id].turns = b.turns) =>
                    /\ conversations'[id].turns = LastRecent(b.turns)
                    /\ conversations'[id].summary = summ'[r].result
         ]_vars

\* C5 amended: if the call returns text S that is non-empty once trimmed and no turn was
\* appended meanwhile, turns is the last maxRecent turns and summary equals S trimmed of
\* leading and trailing whitespace.
C5_SummaryEqualsTrimmedText ==
    /\ [](TriggerPassesOlderTurns)
    /\ [][\A r \in Requests :
            LET id == summ[r].chatId
                b == summ[r].before
            IN  (SummaryReturned(r) /\ Trim(summ'[r].result) # <<>>
                 /\ conversations[id].turns = b.turns) =>
                    /\ conversations'[id].turns = LastRecent(b.turns)
                    /\ conversations'[id].summary = Trim(summ'[r].result)
         ]_vars

\* C5 witness: a call returned padded text with no turn appended meanwhile; the
\* conversation holds the retained window and the trimmed text.
C5_Witness ==
    \E r \in Requests :
        LET id == summ[r].chatId
        IN  /\ summ[r].status = "returned"
            /\ summ[r].result # Trim(summ[r].result)
            /\ Trim(summ[r].result) # <<>>
            /\ conversations[id].turns = LastRecent(summ[r].before.turns)
            /\ conversations[id].summary = Trim(summ[r].result)

\* The response of request r is finished: `end` was written, or the buffered response sent.
Completed(r) ==
    IF req[r].variant = "stream"
    THEN out[r] # <<>> /\ LastOf(out[r]).type = "end"
    ELSE res[r] \in {200, 500}

\* C6: the foreground path never waits on the summarizer. Provided the main model call
\* terminates, every request that passed validation finishes its response, whatever the
\* auxiliary call does, also if it never returns.
C6_ForegroundCompletes ==
    \A r \in Requests : (pc[r] = "running") ~> (pc[r] = "done" /\ Completed(r))

\* C6 witnesses: a request persisted the assistant turn and finished its response while
\* the summarization it started is still outstanding.
C6_Witness ==
    \E r \in Requests :
        /\ pc[r] = "done"
        /\ Completed(r)
        /\ summ[r].status = "pending"
        /\ LastOf(conversations[req[r].chatId].turns).role = "assistant"

\* C7: no duplicate message. The context in a request's prompt is rendered from the turns
\* recorded before the request's own user turn: it holds none of that turn, in both
\* handler variants and with requests for one conversation interleaved.
C7_ContextExcludesOwnTurn ==
    \A r \in Requests :
        pc[r] = "running" =>
            LET lines == FormatAll(prompt[r].rendered)
                context == prompt[r].context
            IN  /\ \A i \in 1..Len(prompt[r].rendered) : prompt[r].rendered[i].uid < req[r].uid
                /\ prompt[r].rendered # <<>> =>
                       /\ Len(context) >= Len(lines)
                       /\ Slice(context, Len(context) - Len(lines)) = lines
                /\ prompt[r].rendered = <<>> =>
                       \A i \in 1..Len(context) : context[i] \notin {"User", "Assistant"}

\* C7 witness: two requests for one conversation are in progress, one streaming and one
\* buffered, and the context of the later one holds the user turn of the earlier one.
C7_Witness ==
    \E r \in Requests, q \in Requests :
        /\ pc[r] = "running" /\ pc[q] = "running"
        /\ req[r].variant = "stream" /\ req[q].variant = "buffered"
        /\ req[r].chatId = req[q].chatId
        /\ req[r].uid \in Uids(prompt[q].rendered) \/ req[q].uid \in Uids(prompt[r].rendered)

\* C8: summarizing is true exactly while a summarization call for the conversation is
\* outstanding.
C8_FlagIffOutstanding ==
    /\ \A c \in DOMAIN conversations : conversations[c].summarizing <=> Pending(c) # {}
    /\ \A c \in ChatIds \ DOMAIN conversations : Pending(c) = {}

\* C8 witness: a call is outstanding after an earlier call for the conversation ended.
C8_Witness ==
    \E r \in Requests, q \in Requests :
        /\ summ[r].status = "pending"
        /\ summ[q].status \in {"returned", "raised"}
        /\ summ[q].chatId = summ[r].chatId
        /\ conversations[summ[r].chatId].summarizing

\* C9: a summarization failure is never surfaced. The step in which the auxiliary call
\* raises writes no event to any stream, changes no response and moves no handler.
C9_SummaryFailureSilent ==
    [][(\E r \in Requests : SummaryRaised(r)) =>
            /\ out' = out
            /\ res' = res
            /\ pc' = pc
            /\ run' = run
      ]_vars

\* C9 witness: the auxiliary call raised while the request that fired it was streaming,
\* and the request then completed without any error event.
C9_Witness ==
    \E r \in Requests :
        /\ summ[r].status = "raised"
        /\ req[r].variant = "stream"
        /\ pc[r] = "done"
        /\ \E i \in 1..Len(out[r]) : out[r][i].type = "complete"
        /\ \A i \in 1..Len(out[r]) : out[r][i].type # "error"

\* C10: input validation. A request without a message is answered 400 at once; it creates
\* and changes no conversation state, starts no summarization and makes no model call.
C10_RejectTouchesNothing ==
    [][\A r \in Requests :
         Rejected(r) =>
            /\ pc'[r] = "done"
            /\ out'[r] = <<>>
            /\ conversations' = conversations
            /\ appended' = appended
            /\ summ' = summ
            /\ run' = run
            /\ prompt' = prompt
      ]_vars

\* C10 witness: a streaming and a buffered request were both rejected and the store is
\* still empty.
C10_Witness ==
    \E r \in Requests, q \in Requests :
        /\ res[r] = 400 /\ req[r].variant = "stream"
        /\ res[q] = 400 /\ req[q].variant = "buffered"
        /\ DOMAIN conversations = {}

\* The step in which request r fails for want of a credential.
CredentialMissing(r) ==
    /\ pc[r] = "idle" /\ pc'[r] # "idle"
    /\ res'[r] # 400
    /\ Falsy(req'[r].key)

\* C11: credential missing. A request for which no credential resolves (body, header,
\* process default) fails with the generic error (the handler's error event on the stream,
\* status 500 on the buffered endpoint); it appends no user turn and starts no
\* summarization, the stored conversations stay as they were, and every request that
\* recorded a user turn had resolved a credential.
C11_NoOrphanedUserTurn ==
    /\ [][\A r \in Requests :
            CredentialMissing(r) =>
                /\ pc'[r] = "done"
                /\ appended' = appended
                /\ summ' = summ
                /\ run' = run
                /\ \A c \in DOMAIN conversations : conversations'[c] = conversations[c]
                /\ \A c \in DOMAIN conversations' \ DOMAIN conversations :
                       conversations'[c] = EmptyState
                /\ req'[r].variant = "stream" =>
                       out'[r] = <<Event("start", None, <<>>), HandlerError,
                                   Event("end", None, <<>>)>>
                /\ req'[r].variant = "buffered" => res'[r] = 500 /\ out'[r] = <<>>
         ]_vars
    /\ [](\A r \in Requests : req[r].uid # 0 => ~Falsy(req[r].key))

\* C11 witness: a streaming and a buffered request both failed for want of a credential
\* and their conversation holds no turn.
C11_Witness ==
    \E r \in Requests, q \in Requests :
        /\ pc[r] = "done" /\ req[r].variant = "stream" /\ ~Falsy(req[r].message)
        /\ Falsy(req[r].key) /\ LastOf(out[r]).type = "end"
        /\ pc[q] = "done" /\ req[q].variant = "buffered" /\ ~Falsy(req[q].message)
        /\ Falsy(req[q].key) /\ res[q] = 500
        /\ conversations[req[r].chatId].turns = <<>>

\* The events a step wrote to the stream of request r.
Written(r) == [i \in 1..(Len(out'[r]) - Len(out[r])) |-> out'[r][Len(out[r]) + i]]

Types(events) == [i \in 1..Len(events) |-> events[i].type]

\* The steps of a streaming request: its model call raised; it consumed a model event.
ModelRaised(r) ==
    /\ pc[r] = "running" /\ pc'[r] = "done"
    /\ req[r].variant = "stream"
    /\ \E i \in 1..Len(Written(r)) : Written(r)[i].type = "error"
EventConsumed(r) == pc[r] = "running" /\ pc'[r] = "running" /\ run'[r] # run[r]

\* The state of conversation c, as getConversationState would return it.
StateOf(convs, c) == IF c \in DOMAIN convs THEN convs[c] ELSE EmptyState

\* C12: foreground failure. When the main model call of a streaming request raises, the
\* stream ends with an error event followed by end, no assistant turn is appended, and
\* the step changes no conversation; before it the request changed its conversation by
\* its appended user turn alone (the summarizing flag of a summarization it started
\* aside), and consuming model events changed no conversation.
C12_ForegroundFailure ==
    [][\A r \in Requests :
         /\ ModelRaised(r) =>
                LET n == Len(out'[r])
                IN  /\ n >= 2
                    /\ out'[r][n - 1].type = "error"
                    /\ out'[r][n].type = "end"
                    /\ \A i \in 1..n : out'[r][i].type # "complete"
                    /\ conversations' = conversations
                    /\ appended' = appended
                    /\ LastOf(appended[req[r].chatId]).uid >= req[r].uid
         /\ (Accepted(r) /\ req'[r].variant = "stream") =>
                LET id == req'[r].chatId
                    pre == StateOf(conversations, id)
                    turn == LastOf(appended'[id])
                IN  /\ turn.role = "user" /\ turn.uid = req'[r].uid
                    /\ appended'[id] = Append(appended[id], turn)
                    /\ conversations'[id] =
                           [pre EXCEPT !.turns = Append(@, turn),
                                       !.summarizing = conversations'[id].summarizing]
                    /\ \A c \in DOMAIN conversations' \ {id} :
                           c \in DOMAIN conversations /\ conversations'[c] = conversations[c]
         /\ EventConsumed(r) => conversations' = conversations /\ appended' = appended
      ]_vars

\* C12 witness: the model call of a streaming request raised; the stream ended with error
\* then end, and the last turn of the conversation is the user turn of that request.
C12_Witness ==
    \E r \in Requests :
        LET id == req[r].chatId
            n == Len(out[r])
        IN  /\ pc[r] = "done" /\ req[r].variant = "stream" /\ req[r].uid # 0
            /\ n >= 3 /\ out[r][n - 1].type = "error" /\ out[r][n].type = "end"
            /\ conversations[id].turns # <<>>
            /\ LastOf(conversations[id].turns).uid = req[r].uid
            /\ LastOf(conversations[id].turns).role = "user"

\* The positions of the events of a type in a stream.
Positions(events, type) == {i \in 1..Len(events) : events[i].type = type}

\* Request r is a streaming request that passed validation.
StreamValidated(r) == req[r].variant = "stream" /\ pc[r] # "idle" /\ res[r] # 400

\* C13: stream framing. The events of a streaming request that passed validation begin
\* with start, written once; end is written once, as the last event, when the handler
\* finishes and not before; complete is written at most once, directly before end, and
\* only on a stream that carries no error event.
C13_StreamFraming ==
    \A r \in Requests :
        StreamValidated(r) =>
            LET n == Len(out[r])
            IN  /\ Positions(out[r], "start") = {1}
                /\ Positions(out[r], "end") = (IF pc[r] = "done" THEN {n} ELSE {})
                /\ Positions(out[r], "complete") \in {{}, {n - 1}}
                /\ Positions(out[r], "complete") # {} =>
                       /\ pc[r] = "done"
                       /\ Positions(out[r], "error") = {}
                       /\ Positions(out[r], "oauth_required") = {}

\* C13 witness: one stream finished with complete and end after a model event, another
\* finished with error and end and no complete.
C13_Witness ==
    \E r \in Requests, q \in Requests :
        /\ StreamValidated(r) /\ pc[r] = "done"
        /\ Positions(out[r], "complete") = {Len(out[r]) - 1}
        /\ Len(out[r]) > 3
        /\ StreamValidated(q) /\ pc[q] = "done"
        /\ Positions(out[q], "error") # {}
        /\ Positions(out[q], "complete") = {}
        /\ LastOf(out[q]).type = "end"

\* The stream chunks a run received, and those of them that carry text.
Chunks(r) ==
    {i \in 1..Len(run[r].events) : run[r].events[i].event = "on_chat_model_stream"}
TextChunks(r) == {i \in Chunks(r) : run[r].events[i].text # ""}

\* response_start comes before every token event of the stream of request r.
StartBeforeTokens(r) ==
    \A i \in Positions(out[r], "token") :
        \E j \in Positions(out[r], "response_start") : j < i

\* C14 as stated: response_start is emitted exactly once if at least one token (stream
\* chunk) arrives and not at all otherwise, and before the first token event.
C14_ResponseStartOncePerChunkRun ==
    \A r \in Requests :
        /\ Cardinality(Positions(out[r], "response_start")) = (IF Chunks(r) # {} THEN 1 ELSE 0)
        /\ StartBeforeTokens(r)

\* C14 amended: response_start is emitted exactly once if at least one chunk with
\* non-empty text arrives and not at all otherwise (chunks without text are dropped), and
\* before the first token event.
C14_ResponseStartOncePerTextRun ==
    \A r \in Requests :
        /\ Cardinality(Positions(out[r], "response_start")) = (IF TextChunks(r) # {} THEN 1 ELSE 0)
        /\ StartBeforeTokens(r)

\* C14 witness: a run received a chunk without text, then a tool start, then two chunks
\* with text; response_start was written once, after tool_start and before the tokens.
C14_Witness ==
    \E r \in Requests :
        /\ 1 \in Chunks(r) \ TextChunks(r)
        /\ Cardinality(TextChunks(r)) = 2
        /\ Cardinality(Positions(out[r], "token")) = 2
        /\ \E i \in Positions(out[r], "tool_start") :
               Positions(out[r], "response_start") = {i + 1}

\* The event sequence of run r is balanced for a tool: every invocation it saw start has
\* ended, and every end belongs to an invocation it saw start.
Balanced(r, name) ==
    /\ OpenRuns(run[r].events, name) = {}
    /\ 0 \notin EndedRuns(run[r].events, name)

\* C15: tool lifecycle pairing. With the same tool invoked several times in one turn,
\* nested or overlapping, every tool end is paired with the start of its own invocation,
\* every computed duration is non-negative, one tool_end event is written per tool end,
\* and after a balanced sequence no recorded start remains.
C15_ToolEndPairsOwnStart ==
    \A r \in Requests :
        LET ends == run[r].toolEnds
        IN  /\ \A i \in 1..Len(ends) :
                   /\ ends[i].runId # 0 => ends[i].matched /\ ends[i].startedRun = ends[i].runId
                   /\ ends[i].durationMs >= 0
            /\ Cardinality(Positions(out[r], "tool_end")) =
                   Cardinality({i \in 1..Len(run[r].events) :
                                   run[r].events[i].event = "on_tool_end"})
            /\ \A name \in ToolNames :
                   Balanced(r, name) => run[r].toolStartTimes[name] = <<>>

\* C16: OAuth classification. When the model call raises, the responder writes
\* oauth_required if and only if the error message contains one of the known phrases, and
\* then directly before its error event, which carries the message; nothing else is
\* written by the responder, and the error reaches the handler, which writes its own error
\* event and end and persists no assistant turn.
C16_OAuthClassification ==
    [][\A r \in Requests :
         ModelRaised(r) =>
            LET W == Written(r)
                k == CHOOSE i \in 1..Len(W) :
                         W[i].type = "error" /\ \A j \in 1..(i - 1) : W[j].type # "error"
                message == W[k].data
                known == \E i \in 1..Len(message) : message[i] \in OAuthPhrases
            IN  /\ W[k] = Event("error", None, message)
                /\ known => k = 2 /\ W[1] = Event("oauth_required", "google_calendar", <<>>)
                /\ ~known => k = 1
                /\ SubSeq(W, k + 1, Len(W)) = <<HandlerError, Event("end", None, <<>>)>>
                /\ appended' = appended
      ]_vars

\* C16 witness: a tool was started, the call raised for want of OAuth credentials, and
\* the stream ends with oauth_required, the responder's error, the handler's error, end.
C16_Witness ==
    \E r \in Requests :
        LET n == Len(out[r])
        IN  /\ pc[r] = "done" /\ n >= 5
            /\ Positions(out[r], "tool_start") # {}
            /\ Types(SubSeq(out[r], n - 3, n)) = <<"oauth_required", "error", "error", "end">>
            /\ out[r][n - 2].data = <<"Error: ", "OAuth credentials not found">>

\* The texts of the stream chunks among a run's events, concatenated in arrival order.
RECURSIVE ChunkTexts(_)
ChunkTexts(events) ==
    IF events = <<>> THEN <<>>
    ELSE (IF Head(events).event = "on_chat_model_stream" /\ Head(events).text # ""
          THEN <<Head(events).text>> ELSE <<>>)
         \o ChunkTexts(Tail(events))

\* The step in which the event sequence of a streaming request ended cleanly.
StreamEnded(r) ==
    /\ pc[r] = "running" /\ pc'[r] = "done"
    /\ req[r].variant = "stream"
    /\ \A i \in 1..Len(Written(r)) : Written(r)[i].type # "error"

\* C17: on a clean end of the event sequence the text the responder returns is the
\* concatenation, in arrival order, of all token texts it received, trimmed of leading and
\* trailing whitespace, and the streaming handler appends one assistant turn holding
\* exactly this text.
C17_PersistsTrimmedConcatenation ==
    [][\A r \in Requests :
         StreamEnded(r) =>
            LET id == req[r].chatId
                turn == LastOf(conversations'[id].turns)
            IN  /\ conversations'[id].turns = Append(conversations[id].turns, turn)
                /\ turn.role = "assistant"
                /\ turn.content = Trim(ChunkTexts(run[r].events))
                /\ appended'[id] = Append(appended[id], turn)
      ]_vars

\* C17 witness: a run received padding, text and padding again, ended cleanly, and the
\* assistant turn holds the text without the padding.
C17_Witness ==
    \E r \in Requests :
        LET id == req[r].chatId
            text == ChunkTexts(run[r].events)
        IN  /\ pc[r] = "done" /\ Positions(out[r], "complete") # {}
            /\ Len(text) >= 3 /\ Head(text) \in Whitespace /\ LastOf(text) \in Whitespace
            /\ Trim(text) # <<>>
            /\ LastOf(conversations[id].turns).role = "assistant"
            /\ LastOf(conversations[id].turns).content = Trim(text)

\* buildConversationContext was called on its own.
Rendered == unit.op = "buildConversationContext"

\* C18 as stated: rendering a state without turns and summary returns the empty string for
\* every maxRecent, and render returns the empty string only when both turns and summary
\* are empty.
C18_EmptyRenderOnlyOfEmptyState ==
    Rendered =>
        (unit.returned = <<>> <=> unit.state.turns = <<>> /\ unit.state.summary = <<>>)

\* C18 amended: rendering a state without turns and summary returns the empty string for
\* every maxRecent, and render returns the empty string only when the summary is empty
\* and either there are no turns or maxRecent is zero or less.
C18_EmptyRenderIffNothingToShow ==
    Rendered =>
        (unit.returned = <<>> <=>
             /\ unit.state.summary = <<>>
             /\ unit.state.turns = <<>> \/ unit.maxRecent <= 0)

\* C18 witness: a state that was freshly created and then given turns is rendered with
\* maxRecent 0, and the result is the empty string.
C18_Witness ==
    /\ Rendered
    /\ unit.state.turns # <<>> /\ unit.state.summary = <<>>
    /\ unit.maxRecent = 0
    /\ unit.returned = <<>>

\* The line the renderer is to write for a turn.
ExpectedLine(turn) ==
    IF turn.role = "user" THEN <<"User", ": ">> \o turn.content
    ELSE <<"Assistant", ": ">> \o turn.content

\* The lines of turns i..Len(turns), each but the last followed by a line break.
RECURSIVE ExpectedLines(_, _)
ExpectedLines(turns, i) ==
    IF i > Len(turns) THEN <<>>
    ELSE IF i = Len(turns) THEN ExpectedLine(turns[i])
    ELSE ExpectedLine(turns[i]) \o <<"\n">> \o ExpectedLines(turns, i + 1)

\* The places of a block's heading in a rendered context.
Headings(text, heading) == {i \in 1..Len(text) : text[i] = heading}

\* C19: the Recent Messages block of render(state, maxRecent) is the last of the context
\* and lists exactly the last min(maxRecent, len(turns)) turns of state.turns, in stored
\* order, one line "User: <content>" or "Assistant: <content>" each; there is no such
\* block when that number is zero. After user "Hello" and assistant "Hi there" were
\* appended to an empty conversation, render with maxRecent 6 is that block with those two
\* lines and holds no Summary block.
C19_RecentBlockListsLastTurns ==
    Rendered =>
        LET turns == unit.state.turns
            n == Max(0, Min(unit.maxRecent, Len(turns)))
            at == Headings(unit.returned, "Recent Messages (up to last ")
            block == <<"Recent Messages (up to last ", ToString(unit.maxRecent), "):\n">>
                     \o ExpectedLines(turns, Len(turns) - n + 1)
        IN  /\ n = 0 => at = {}
            /\ n > 0 =>
                   /\ Cardinality(at) = 1
                   /\ \A h \in at : Slice(unit.returned, h - 1) = block
            /\ unit.state.summary = <<>> =>
                   Headings(unit.returned, "Conversation Summary (compressed from ") = {}
            /\ ( /\ Len(turns) = 2 /\ unit.state.summary = <<>> /\ unit.maxRecent = 6
                 /\ turns[1].role = "user" /\ turns[1].content = <<"Hello">>
                 /\ turns[2].role = "assistant" /\ turns[2].content = <<"Hi there">> ) =>
                   unit.returned = <<"Recent Messages (up to last ", "6", "):\n",
                                     "User", ": ", "Hello", "\n",
                                     "Assistant", ": ", "Hi there">>

\* C19 witness: a conversation with a summary and three turns is rendered with
\* maxRecent 2, and the context ends with the lines of its last two turns.
C19_Witness ==
    /\ Rendered
    /\ Len(unit.state.turns) = 3 /\ unit.maxRecent = 2 /\ unit.state.summary # <<>>
    /\ unit.state.turns[1].role = "user" /\ unit.state.turns[2].role = "user"
    /\ unit.state.turns[3].role = "assistant"
    /\ unit.state.turns[2].content # unit.state.turns[1].content
    /\ Slice(unit.returned, Len(unit.returned) - 7) =
           ExpectedLine(unit.state.turns[2]) \o <<"\n">> \o ExpectedLine(unit.state.turns[3])

\* The step of a direct call of getConversationState.
GotState == unit'.op = "getConversationState" /\ unit' # unit

\* C20: getOrCreate is idempotent and total. A call for an id that has no state registers
\* an empty one (no turns, empty summary, summarizing false, no lastSummaryAt) and changes
\* no other conversation; a call for an id that has a state returns that state and
\* changes nothing; every call returns a state.
C20_GetOrCreateIdempotent ==
    [][GotState =>
         LET c == unit'.chatId
         IN  /\ c \in DOMAIN conversations'
             /\ unit'.returned = conversations'[c]
             /\ c \notin DOMAIN conversations =>
                    /\ unit'.returned = [turns |-> <<>>, summary |-> <<>>,
                                         summarizing |-> FALSE, lastSummaryAt |-> NoTime]
                    /\ DOMAIN conversations' = DOMAIN conversations \cup {c}
                    /\ \A d \in DOMAIN conversations : conversations'[d] = conversations[d]
             /\ c \in DOMAIN conversations =>
                    /\ unit'.returned = conversations[c]
                    /\ conversations' = conversations
      ]_vars

\* C20 witness: a call for an id whose state holds a summary and turns returned that state.
C20_Witness ==
    /\ unit.op = "getConversationState"
    /\ unit.found
    /\ unit.returned.turns # <<>> /\ unit.returned.summary # <<>>
    /\ conversations[unit.chatId] = unit.returned

\* The step of a direct call of addTurn.
TurnAdded == unit'.op = "addTurn" /\ conversations' # conversations

\* C21: appendTurn(id, role, content) adds exactly one turn, with the given role and
\* content, at the end of the turns of conversation id; the earlier turns, summary,
\* summarizing and lastSummaryAt stay as they were, no other conversation changes, and
\* no summarization is started, also when the conversation then holds older turns.
C21_AppendTurnFrame ==
    [][TurnAdded =>
         LET c == unit'.chatId
             pre == StateOf(conversations, c)
             post == conversations'[c]
         IN  /\ Len(post.turns) = Len(pre.turns) + 1
             /\ SubSeq(post.turns, 1, Len(pre.turns)) = pre.turns
             /\ LastOf(post.turns).role = unit'.role
             /\ LastOf(post.turns).content = unit'.content
             /\ post.summary = pre.summary
             /\ post.summarizing = pre.summarizing
             /\ post.lastSummaryAt = pre.lastSummaryAt
             /\ \A d \in DOMAIN conversations' \ {c} :
                    d \in DOMAIN conversations /\ conversations'[d] = conversations[d]
             /\ summ' = summ
      ]_vars

\* C21 witness: addTurn was called on a conversation holding MaxRecent turns; it holds one
\* more, the one given, and no summarization is in progress.
C21_Witness ==
    /\ unit.op = "addTurn"
    /\ Len(conversations[unit.chatId].turns) = MaxRecent + 1
    /\ LastOf(conversations[unit.chatId].turns).content = unit.content
    /\ LastOf(conversations[unit.chatId].turns).role = unit.role
    /\ ~conversations[unit.chatId].summarizing
    /\ \A r \in Requests : summ[r].status = "none"

\* C22: cancellation. Once the caller has aborted an in-flight streaming request, the
\* model call of that request delivers no further event to the responder, and the handler
\* appends no assistant turn for the request.
C22_AbortStopsTheTurn ==
    [][\A r \in aborted :
         /\ run'[r] = run[r]
         /\ pc[r] = "running" => appended'[req[r].chatId] = appended[req[r].chatId]
      ]_vars

\* C23: after a successful compaction turns consists of the maxRecent turns that were
\* excluded from olderTurns when the summarization started, also when the foreground path
\* appended turns while the auxiliary call was outstanding.
C23_RetainedWindowAsAtStart ==
    [][\A r \in Requests :
         SummaryReturned(r) =>
            conversations'[summ[r].chatId].turns = LastRecent(summ[r].before.turns)
      ]_vars

\* C24: maybeSummarize starts an auxiliary-model call and sets summarizing if and only if
\* the conversation holds more than maxRecent turns and summarizing is false at the moment
\* of the call (right after the handler appended the user turn); otherwise it makes no
\* call and changes no field of the conversation state.
C24_StartsIffOlderTurnsAndIdle ==
    [][\A r \in Requests :
         Accepted(r) =>
            LET id == req'[r].chatId
                pre == StateOf(conversations, id)
                atCall == [pre EXCEPT !.turns = Append(@, LastOf(appended'[id]))]
                starts == Len(atCall.turns) > MaxRecent /\ ~atCall.summarizing
            IN  /\ (summ'[r].status = "pending") <=> starts
                /\ (summ'[r].status = "skipped") <=> ~starts
                /\ starts => conversations'[id] = [atCall EXCEPT !.summarizing = TRUE]
                /\ ~starts => conversations'[id] = atCall
      ]_vars

\* C24 witness: of two requests for one conversation of more than maxRecent turns the
\* first started a call and the second, finding summarizing set, did not.
C24_Witness ==
    \E r \in Requests, q \in Requests :
        /\ summ[r].status = "pending" /\ summ[q].status = "skipped"
        /\ summ[r].chatId = summ[q].chatId
        /\ Len(summ[q].before.turns) > MaxRecent /\ summ[q].before.summarizing
        /\ Len(summ[r].before.turns) = MaxRecent + 1 /\ ~summ[r].before.summarizing

\* C25: when the auxiliary call succeeds but yields empty, whitespace-only or unparseable
\* text, the summary stays the one the conversation had.
C25_EmptyResultKeepsSummary ==
    [][\A r \in Requests :
         (SummaryReturned(r) /\ Trim(summ'[r].result) = <<>>) =>
            /\ conversations'[summ[r].chatId].summary = conversations[summ[r].chatId].summary
            /\ conversations'[summ[r].chatId].summary = summ[r].before.summary
      ]_vars

\* C25 witness: a conversation got a summary from one call, and a later call for it
\* returned whitespace only; the summary is still the one of the first call.
C25_Witness ==
    \E r \in Requests, q \in Requests :
        /\ summ[r].status = "returned" /\ Trim(summ[r].result) # <<>>
        /\ summ[q].status = "returned" /\ summ[q].result # <<>> /\ Trim(summ[q].result) = <<>>
        /\ summ[q].chatId = summ[r].chatId
        /\ summ[q].before.summary = Trim(summ[r].result)
        /\ conversations[summ[q].chatId].summary = Trim(summ[r].result)

\* C26: retry after failure. When a summarization attempt for a conversation has failed
\* and none is outstanding, the next request accepted for that conversation (no
\* compaction having truncated the turns since) starts a new attempt, and the olderTurns
\* of the new attempt begin with all the olderTurns of the failed attempt.
C26_RetryAfterFailure ==
    [][\A r \in Requests, q \in Requests :
         LET id == req'[r].chatId
         IN  ( /\ Accepted(r)
               /\ summ[q].status = "raised" /\ summ[q].chatId = id
               /\ Pending(id) = {}
               /\ IsPrefix(summ[q].before.turns, conversations[id].turns) ) =>
                 /\ summ'[r].status = "pending"
                 /\ IsPrefix(summ[q].olderTurns, summ'[r].olderTurns)
                 /\ conversations'[id].summarizing
      ]_vars

\* C26 witness: the attempt of one request failed, and the next request for the
\* conversation started an attempt whose olderTurns hold those of the failed one and more.
C26_Witness ==
    \E r \in Requests, q \in Requests :
        /\ summ[q].status = "raised" /\ summ[r].status = "pending"
        /\ summ[q].chatId = summ[r].chatId
        /\ req[q].uid < req[r].uid
        /\ ~summ[r].before.summarizing
        /\ summ[q].olderTurns # <<>>
        /\ IsPrefix(summ[q].olderTurns, summ[r].olderTurns)
        /\ Len(summ[r].olderTurns) > Len(summ[q].olderTurns)

\* The step in which the handler of request r finishes after its model call, and whether
\* it reports success (complete on the stream, the buffered success response).
Finished(r) == pc[r] = "running" /\ pc'[r] = "done"
ReportsSuccess(r) ==
    IF req[r].variant = "stream"
    THEN \E i \in 1..Len(Written(r)) : Written(r)[i].type = "complete"
    ELSE res'[r] = 200

\* C27: the order of the steps of a request. The context is rendered from the turns
\* recorded before the user turn of the request; the summarizer is started on the state
\* that holds that user turn as its last; the model is invoked after both (no model event
\* is consumed before); the assistant turn is appended in the step in which the model call
\* ended cleanly, and in no other, after the user turn of the request; complete, or the
\* buffered success response, is sent in that step and in no other.
C27_StepOrder ==
    /\ [](\A r \in Requests :
             pc[r] = "running" =>
                 /\ \A i \in 1..Len(prompt[r].rendered) : prompt[r].rendered[i].uid < req[r].uid
                 /\ summ[r].status # "none"
                 /\ summ[r].before.turns # <<>>
                 /\ LastOf(summ[r].before.turns).uid = req[r].uid
                 /\ LastOf(summ[r].before.turns).role = "user")
    /\ [][\A r \in Requests :
            LET id == req'[r].chatId
            IN  /\ Accepted(r) =>
                       /\ run'[r].events = <<>>
                       /\ LastOf(appended'[id]).role = "user"
                       /\ \A i \in 1..Len(Written(r)) :
                              Written(r)[i].type \notin {"complete", "token"}
                /\ EventConsumed(r) =>
                       /\ appended' = appended
                       /\ \A i \in 1..Len(Written(r)) : Written(r)[i].type # "complete"
                /\ (Finished(r) /\ ReportsSuccess(r)) =>
                       /\ Len(appended'[id]) = Len(appended[id]) + 1
                       /\ LastOf(appended'[id]).role = "assistant"
                       /\ LastOf(appended'[id]).uid > req[r].uid
                       /\ appended[id][req[r].uid].role = "user"
                       /\ \A i \in 1..Len(Written(r)) : Written(r)[i].type # "error"
                /\ (Finished(r) /\ ~ReportsSuccess(r)) => appended' = appended
         ]_vars

\* C27 witness: a streaming and a buffered request for one conversation both ran to
\* success; the conversation holds the user turn of each and an assistant turn after it.
C27_Witness ==
    \E r \in Requests, q \in Requests :
        LET id == req[r].chatId
        IN  /\ req[r].variant = "stream" /\ pc[r] = "done" /\ Positions(out[r], "complete") # {}
            /\ req[q].variant = "buffered" /\ pc[q] = "done" /\ res[q] = 200
            /\ req[q].chatId = id
            /\ \A p \in {r, q} :
                   /\ appended[id][req[p].uid].role = "user"
                   /\ \E i \in (req[p].uid + 1)..Len(appended[id]) :
                          appended[id][i].role = "assistant"

\* What a step wrote to the stream of request r, response_start left out, as pairs of
\* type and tool name or text.
RECURSIVE Forwards(_)
Forwards(events) ==
    IF events = <<>> THEN <<>>
    ELSE (IF Head(events).type = "response_start" THEN <<>>
          ELSE IF Head(events).type = "token"
               THEN <<<<"token", Head(events).data>>>>
               ELSE <<<<Head(events).type, Head(events).tool>>>>)
         \o Forwards(Tail(events))

\* C28 as stated: for every incoming tool-start, tool-end and token event the responder
\* emits, in the step that processes it, exactly one tool_start, tool_end or token event
\* with the same tool name or text; no chunk is merged, split or dropped.
C28_ForwardsEveryEvent ==
    [][\A r \in Requests :
         EventConsumed(r) =>
            LET e == LastOf(run'[r].events)
            IN  Forwards(Written(r)) =
                    IF e.event = "on_tool_start" THEN <<<<"tool_start", e.name>>>>
                    ELSE IF e.event = "on_tool_end" THEN <<<<"tool_end", e.name>>>>
                    ELSE IF e.event = "on_chat_model_stream" THEN <<<<"token", <<e.text>>>>>>
                    ELSE <<>>
      ]_vars

\* C28 amended: as stated for tool starts, tool ends and chunks with text; a chunk whose
\* text is empty is dropped: the step that processes it writes nothing.
C28_ForwardsEveryTextEvent ==
    [][\A r \in Requests :
         EventConsumed(r) =>
            LET e == LastOf(run'[r].events)
            IN  /\ Len(run'[r].events) = Len(run[r].events) + 1
                /\ Forwards(Written(r)) =
                       IF e.event = "on_tool_start" THEN <<<<"tool_start", e.name>>>>
                       ELSE IF e.event = "on_tool_end" THEN <<<<"tool_end", e.name>>>>
                       ELSE IF e.event = "on_chat_model_stream" /\ e.text # ""
                            THEN <<<<"token", <<e.text>>>>>>
                       ELSE <<>>
      ]_vars

\* C28 witness: a run received a tool end it had no start for, a tool start, a chunk
\* without text and a chunk with text, and wrote tool_end, tool_start, response_start and
\* one token.
C28_Witness ==
    \E r \in Requests :
        /\ Len(run[r].events) = 4
        /\ run[r].events[1].event = "on_tool_end"
        /\ run[r].events[2].event = "on_tool_start"
        /\ run[r].events[3].event = "on_chat_model_stream" /\ run[r].events[3].text = ""
        /\ run[r].events[4].event = "on_chat_model_stream" /\ run[r].events[4].text = "a"
        /\ Types(out[r]) = <<"start", "tool_end", "tool_start", "response_start", "token">>

\* The places of the two blocks' headings in the context a direct call rendered.
SummaryAt == Headings(unit.returned, "Conversation Summary (compressed from ")
RecentAt == Headings(unit.returned, "Recent Messages (up to last ")

\* When both blocks are present the context opens with the Summary block, which holds the
\* stored summary, and one blank line separates it from the Recent Messages block.
SummaryThenRecent ==
    (SummaryAt # {} /\ RecentAt # {}) =>
        /\ SummaryAt = {1}
        /\ \A h \in RecentAt :
               /\ h = Len(unit.state.summary) + 7
               /\ unit.returned[h - 1] = "\n\n"
               /\ SubSeq(unit.returned, 6, h - 2) = unit.state.summary

PreamblePart == enhanceSystemPromptWithDateTime(None)
ContextPart(r) ==
    IF prompt[r].context # <<>>
    THEN <<"\n\nConversation Context:\n\n">> \o prompt[r].context
    ELSE <<>>
FilesPart(r) ==
    LET files == prompt[r].fileSummaries
    IN  IF files # <<>>
        THEN <<"\n\nUploaded Files (summaries only):\n- ">>
             \o Join([i \in 1..Len(files) |-> <<files[i]>>], <<"\n- ">>)
             \o (IF req[r].variant = "buffered"
                 THEN <<"\n\nYou have tools: arkangel_list_files, arkangel_read_file.">>
                 ELSE <<>>)
        ELSE <<>>

\* C30: the prompt sent to the model is, in this order, the preamble, the conversation
\* context if it is non-empty, the file-summary block if file summaries were supplied, a
\* blank line and the new user message as it was received; the new message is the last
\* part and is appended exactly once.
C30_PromptOrder ==
    \A r \in Requests :
        IF pc[r] = "running"
        THEN LET sent == prompt[r].finalMessage
                 n == Len(sent)
             IN  /\ sent = PreamblePart \o ContextPart(r) \o FilesPart(r)
                           \o <<"\n\n", req[r].message>>
                 /\ sent[n] = req[r].message /\ sent[n - 1] = "\n\n"
                 /\ Headings(sent, "\n\nConversation Context:\n\n") # {}
                        <=> prompt[r].context # <<>>
                 /\ Headings(sent, "\n\nUploaded Files (summaries only):\n- ") # {}
                        <=> prompt[r].fileSummaries # <<>>
        ELSE prompt[r] = NoPrompt

\* C30 witness: a request for a conversation with earlier turns supplied file summaries,
\* and its prompt holds the context, then the file-summary block, then the blank line and
\* the message.
C30_Witness ==
    \E r \in Requests :
        /\ pc[r] = "running"
        /\ prompt[r].context # <<>> /\ prompt[r].fileSummaries # <<>>
        /\ \E c \in Headings(prompt[r].finalMessage, "\n\nConversation Context:\n\n") :
             \E f \in Headings(prompt[r].finalMessage,
                               "\n\nUploaded Files (summaries only):\n- ") :
                 /\ 3 < c /\ c < f /\ f < Len(prompt[r].finalMessage) - 1
                 /\ LastOf(prompt[r].finalMessage) = req[r].message

\* A request carries an id in a place when the value there is neither missing nor empty.
Present(v) == v \notin {None, ""}

Resolved == unit.op = "resolveChatId"

\* A resolution of a request that supplies no id at all.
ResolvedWithoutId ==
    /\ Resolved
    /\ ~Present(unit.header) /\ ~Present(unit.chatId) /\ ~Present(unit.conversationId)

\* C31: the conversation id is the request's header value if present, else the body's
\* chatId, else the body's conversationId, else the constant 'default'. Consequently every
\* request that supplies no id resolves to 'default', and its lookup and its append act on
\* the one state registered under 'default', whoever registered or extended it before.
C31_IdResolution ==
    /\ [](Resolved =>
            /\ Present(unit.header) => unit.returned = unit.header
            /\ ~Present(unit.header) /\ Present(unit.chatId) => unit.returned = unit.chatId
            /\ ~Present(unit.header) /\ ~Present(unit.chatId) /\ Present(unit.conversationId)
                   => unit.returned = unit.conversationId
            /\ ResolvedWithoutId => unit.returned = "default")
    /\ [][(ResolvedWithoutId /\ unit'.op \in {"getConversationState", "addTurn"}
             /\ unit'.chatId = unit.returned) =>
             LET before == IF "default" \in DOMAIN conversations
                           THEN conversations["default"] ELSE EmptyState
             IN  /\ "default" \in DOMAIN conversations'
                 /\ unit'.op = "getConversationState" =>
                        unit'.returned = before /\ conversations'["default"] = before
                 /\ unit'.op = "addTurn" =>
                        /\ SubSeq(conversations'["default"].turns, 1, Len(before.turns))
                               = before.turns
                        /\ Len(conversations'["default"].turns) = Len(before.turns) + 1
                        /\ LastOf(conversations'["default"].turns).content = unit'.content
      ]_vars

\* C31 witness: a request with an empty body chatId and nothing else resolves to 'default'
\* while the state registered under 'default' holds a turn an earlier caller appended.
C31_Witness ==
    /\ Resolved
    /\ unit.header = None /\ unit.chatId = "" /\ unit.conversationId = None
    /\ unit.returned = "default"
    /\ "default" \in DOMAIN conversations
    /\ conversations["default"].turns # <<>>

IsSuffix(a, b) == Len(a) <= Len(b) /\ SubSeq(b, Len(b) - Len(a) + 1, Len(b)) = a

\* The turns stored for conversation c in a store, none when c is not registered.
TurnsOf(convs, c) == IF c \in DOMAIN convs THEN convs[c].turns ELSE <<>>

\* C32: in every reachable state the turns of a conversation are a contiguous suffix of
\* the sequence of all turns ever appended to it, in append order and as appended. A step
\* either leaves the turns alone, or adds one turn at the end, or removes turns from the
\* front; the last only when a summarization of that conversation returns.
C32_TurnsSuffixOfAppended ==
    /\ [](\A c \in ChatIds :
            /\ IsSuffix(TurnsOf(conversations, c), appended[c])
            /\ \A i \in 1..Len(appended[c]) : appended[c][i].uid = i)
    /\ [][\A c \in ChatIds :
            LET old == TurnsOf(conversations, c)
                new == TurnsOf(conversations', c)
            IN  /\ IsPrefix(appended[c], appended'[c])
                /\ \/ new = old /\ appended'[c] = appended[c]
                   \/ /\ Len(appended'[c]) = Len(appended[c]) + 1
                      /\ new = Append(old, LastOf(appended'[c]))
                   \/ /\ appended'[c] = appended[c]
                      /\ IsSuffix(new, old)
                      /\ \E r \in Requests : SummaryReturned(r) /\ summ[r].chatId = c
      ]_vars

\* C32 witness: two requests for one conversation were interleaved with a summarization
\* that returned; turns left from the front and the user turns of both requests are stored.
C32_Witness ==
    \E r \in Requests, q \in Requests :
        /\ r # q /\ pc[r] = "running" /\ pc[q] = "running"
        /\ req[r].chatId = req[q].chatId
        /\ summ[r].status = "returned"
        /\ LET c == req[r].chatId
           IN  /\ Len(conversations[c].turns) < Len(appended[c])
               /\ {req[r].uid, req[q].uid} \subseteq Uids(conversations[c].turns)

\* The request got its model's answer: complete was written, or the response is 200.
Replied(r) ==
    /\ pc[r] = "done"
    /\ IF req[r].variant = "stream" THEN "complete" \in {out[r][i].type : i \in 1..Len(out[r])}
       ELSE res[r] = 200

\* The text the model produced for request r: the chunks of a streaming run, the value
\* the agent returned to the buffered handler.
ModelOutput(r) == IF req[r].variant = "stream" THEN run[r].finalText ELSE run[r].output

\* Roles and contents of a sequence of turns.
Contents(turns) == [i \in 1..Len(turns) |-> [role |-> turns[i].role, content |-> turns[i].content]]

\* The streaming request 1 and the buffered request 2 are over, they carried the same
\* message, their models produced the same output or both raised, their summarizations
\* ended the same way with the same text, and at the same point between the appends.
SameRequestsAndOutputs ==
    /\ pc[1] = "done" /\ pc[2] = "done"
    /\ req[1].variant = "stream" /\ req[2].variant = "buffered"
    /\ req[1].message = req[2].message
    /\ \/ Replied(1) /\ Replied(2) /\ ModelOutput(1) = ModelOutput(2)
       \/ ~Replied(1) /\ ~Replied(2)
    /\ summ[1].status = summ[2].status /\ summ[1].status # "pending"
    /\ summ[1].result = summ[2].result
    /\ Len(appended["c1"]) - Len(conversations["c1"].turns)
           = Len(appended["default"]) - Len(conversations["default"].turns)

\* C33 as stated: for the same request and the same model outputs the streaming and the
\* buffered handler append turns of the same roles and contents in the same order and
\* leave their conversations with the same turns and the same summary state.
C33_VariantsLeaveSameStore ==
    SameRequestsAndOutputs =>
        /\ Contents(appended["c1"]) = Contents(appended["default"])
        /\ Contents(conversations["c1"].turns) = Contents(conversations["default"].turns)
        /\ conversations["c1"].summary = conversations["default"].summary
        /\ conversations["c1"].summarizing = conversations["default"].summarizing

\* The step in which the handler of request r starts.
Starts(r) == pc[r] = "idle" /\ pc'[r] # "idle"

\* C34: a conversation state is registered by the first request that refers to its id and
\* stays registered: the set of registered ids only grows, by the ids of the requests that
\* reach the lookup, and no step (append, summarization returned or raised, request
\* failed) removes a state or puts a new empty state in its place.
C34_StoreOnlyGrows ==
    [][/\ \A c \in DOMAIN conversations :
            /\ c \in DOMAIN conversations'
            /\ conversations'[c] = EmptyState => conversations[c] = EmptyState
            /\ conversations[c].summary # <<>> => conversations'[c].summary # <<>>
            /\ conversations[c].lastSummaryAt # NoTime
                   => conversations'[c].lastSummaryAt # NoTime
       /\ \A c \in DOMAIN conversations' \ DOMAIN conversations :
            /\ \E r \in Requests : Starts(r) /\ req'[r].chatId = c
            /\ conversations'[c].summary = <<>> /\ ~conversations'[c].summarizing
            /\ conversations'[c].lastSummaryAt = NoTime
            /\ Len(conversations'[c].turns) <= 1
       /\ \A r \in Requests :
            (Starts(r) /\ req'[r].chatId # None) => req'[r].chatId \in DOMAIN conversations'
      ]_vars

\* C34 witness: a request without credential registered 'default', which holds no turn, and
\* the summarization of a request for "c1" raised; both conversations are registered.
C34_Witness ==
    \E r \in Requests, q \in Requests :
        /\ req[r].chatId = "default" /\ req[r].uid = 0 /\ pc[r] = "done"
        /\ "default" \in DOMAIN conversations /\ conversations["default"] = EmptyState
        /\ req[q].chatId = "c1" /\ summ[q].status = "raised"
        /\ "c1" \in DOMAIN conversations

\* C35: the summarizing guard cannot get stuck. If every auxiliary-model call returns or
\* raises in the end, then whenever summarizing is true for a conversation it becomes
\* false again, whether the call returned text, returned none or raised.
C35_GuardReleased ==
    \A c \in ChatIds :
        (c \in DOMAIN conversations /\ conversations[c].summarizing)
            ~> (c \in DOMAIN conversations /\ ~conversations[c].summarizing)

\* C35 witness: one summarization of a conversation raised and a later one returned no
\* text; the flag of the conversation is false.
C35_Witness ==
    \E r \in Requests, q \in Requests :
        /\ summ[r].status = "raised" /\ summ[q].status = "returned"
        /\ summ[r].chatId = summ[q].chatId
        /\ Trim(summ[q].result) = <<>>
        /\ ~conversations[summ[q].chatId].summarizing

\* The step is one of request r or of the summarization request r started.
StepOf(r) == pc'[r] # pc[r] \/ run'[r] # run[r] \/ summ'[r] # summ[r]

\* Conversation c is registered and stored after the step as before it.
Untouched(c) ==
    /\ (c \in DOMAIN conversations') = (c \in DOMAIN conversations)
    /\ c \in DOMAIN conversations => conversations'[c] = conversations[c]
    /\ appended'[c] = appended[c]

\* C36: conversation isolation. Every step taken for a conversation (a request's render,
\* appends and start of a summarization, the return or failure of a summarization) leaves
\* every other conversation as it was: turns, summary, summarizing and lastSummaryAt. A
\* summarization outstanding for one conversation does not make the summarizer skip for
\* another: a request for a conversation that gets an older turn and has no call
\* outstanding starts one, on the older turns of its own conversation.
C36_ConversationIsolation ==
    [][\A r \in Requests :
         /\ StepOf(r) =>
               \A c \in ChatIds : c # req'[r].chatId => Untouched(c)
         /\ ( /\ Accepted(r)
              /\ Pending(req'[r].chatId) = {}
              /\ Len(conversations'[req'[r].chatId].turns) > MaxRecent
              /\ \E c \in ChatIds : c # req'[r].chatId /\ Pending(c) # {} ) =>
                LET id == req'[r].chatId
                    turns == conversations'[id].turns
                IN  /\ summ'[r].status = "pending"
                    /\ summ'[r].chatId = id
                    /\ conversations'[id].summarizing
                    /\ summ'[r].olderTurns = SubSeq(turns, 1, Len(turns) - MaxRecent)
      ]_vars

\* C36 witness: summarizations for two conversations are outstanding at once, and the
\* return of the first changed its own conversation alone.
C36_Witness ==
    \E r \in Requests, q \in Requests :
        /\ summ[r].status = "returned" /\ summ[q].status = "pending"
        /\ summ[r].chatId # summ[q].chatId
        /\ conversations[summ[r].chatId].summary # <<>>
        /\ conversations[summ[q].chatId].summary = <<>>
        /\ conversations[summ[q].chatId].summarizing
        /\ conversations[summ[q].chatId].lastSummaryAt = NoTime
        /\ summ[q].before.turns = conversations[summ[q].chatId].turns

\* The events that report progress or success of a turn.
ProgressTypes == {"response_start", "token", "tool_start", "tool_end", "complete"}

\* C37: on every stream, no response_start, token, tool_start, tool_end or complete event
\* comes after an error event, and no stream carries both complete and error.
C37_NothingAfterError ==
    \A r \in Requests :
        /\ \A i \in Positions(out[r], "error") :
               \A j \in (i + 1)..Len(out[r]) : out[r][j].type \notin ProgressTypes
        /\ Positions(out[r], "complete") = {} \/ Positions(out[r], "error") = {}

\* C37 witness: a run forwarded a tool start, a tool end and a token, then its model call
\* raised; after the first error event the stream carries the handler's error and end.
C37_Witness ==
    \E r \in Requests :
        Types(out[r]) = <<"start", "tool_start", "tool_end", "response_start", "token",
                          "error", "error", "end">>

\* The step in which the run of request r handles a tool start or a tool end.
ToolEventHandled(r) ==
    /\ EventConsumed(r)
    /\ LastOf(run'[r].events).event \in {"on_tool_start", "on_tool_end"}

\* C38: the start times of tools are private to one run. With streaming requests running
\* side by side, a tool event handled by one run leaves the bookkeeping of every other run
\* as it was, and a tool end is paired with a start if and only if its own run has one
\* recorded for that tool name: it takes the latest of those, and none of another run.
C38_ToolStartsPerRun ==
    [][\A r \in Requests :
         ToolEventHandled(r) =>
            LET e == LastOf(run'[r].events)
                own == run[r].toolStartTimes[e.name]
            IN  /\ \A q \in Requests \ {r} : run'[q] = run[q]
                /\ e.event = "on_tool_start" =>
                       /\ Len(run'[r].toolStartTimes[e.name]) = Len(own) + 1
                       /\ LastOf(run'[r].toolStartTimes[e.name]).runId = e.runId
                /\ e.event = "on_tool_end" =>
                       /\ LastOf(run'[r].toolEnds).matched = (own # <<>>)
                       /\ own = <<>> => run'[r].toolStartTimes = run[r].toolStartTimes
                       /\ own # <<>> =>
                              /\ run'[r].toolStartTimes[e.name] = SubSeq(own, 1, Len(own) - 1)
                              /\ LastOf(run'[r].toolEnds).startedRun = LastOf(own).runId
      ]_vars

\* C38 witness: two streaming runs are under way; one handled a tool end without a start
\* of its own and paired nothing, the other holds the start it recorded for the same tool.
C38_Witness ==
    \E r \in Requests, q \in Requests :
        /\ r # q /\ pc[r] = "running" /\ pc[q] = "running"
        /\ Len(run[r].events) = 1 /\ run[r].events[1].event = "on_tool_end"
        /\ ~run[r].toolEnds[1].matched
        /\ Len(run[q].events) = 1 /\ run[q].events[1].event = "on_tool_start"
        /\ run[q].events[1].name = run[r].events[1].name
        /\ Len(run[q].toolStartTimes[run[q].events[1].name]) = 1

\* The step in which the run of request r handles a tool end.
ToolEndHandled(r) ==
    /\ EventConsumed(r)
    /\ LastOf(run'[r].events).event = "on_tool_end"

\* C39: a tool end for which the run has no start of the same tool name recorded writes
\* exactly one tool_end event, for that tool, and nothing else; the run goes on, no error
\* is reported, no duration is computed, and the recorded starts of every tool stay as
\* they were. Whether matched or not, a tool end leaves the starts recorded for every
\* other tool name alone.
C39_UnmatchedToolEnd ==
    [][\A r \in Requests :
         ToolEndHandled(r) =>
            LET e == LastOf(run'[r].events)
                own == run[r].toolStartTimes[e.name]
            IN  /\ \A n \in ToolNames \ {e.name} :
                       run'[r].toolStartTimes[n] = run[r].toolStartTimes[n]
                /\ own = <<>> =>
                       /\ Len(Written(r)) = 1
                       /\ Written(r)[1].type = "tool_end" /\ Written(r)[1].tool = e.name
                       /\ pc'[r] = "running" /\ res'[r] = res[r]
                       /\ ~LastOf(run'[r].toolEnds).matched
                       /\ run'[r].toolStartTimes = run[r].toolStartTimes
      ]_vars

\* C39 witness: a run recorded the start of one tool and then handled the end of another
\* tool, of which it has no start; it wrote tool_end and still holds the recorded start.
C39_Witness ==
    \E r \in Requests :
        /\ pc[r] = "running"
        /\ Len(run[r].events) = 2
        /\ run[r].events[1].event = "on_tool_start" /\ run[r].events[2].event = "on_tool_end"
        /\ run[r].events[1].name # run[r].events[2].name
        /\ Types(out[r]) = <<"start", "tool_start", "tool_end">>
        /\ out[r][3].tool = run[r].events[2].name
        /\ Len(run[r].toolStartTimes[run[r].events[1].name]) = 1
        /\ ~run[r].toolEnds[1].matched

====
